---- MODULE Spec2Model ----
(***************************************************************************)
(* Verification model of the codewise fault-localization pipeline.         *)
(*                                                                         *)
(*   SpecMerge    candidate merging (fault_localizer.py,                   *)
(*                fault_localizer_prod.py: _merge_candidates)              *)
(*   SpecGraph    call graph construction and bounded traversal            *)
(*                (graph/call_graph.py)                                    *)
(*   SpecExtract  stack-trace dialect detection and frame extraction       *)
(*                (extractors/*.py, FaultLocalizer._extract_error)         *)
(*   SpecRetrieve BM25 pool + dense re-ranking                             *)
(*                (retrieval/hybrid_retriever.py)                          *)
(*   SpecCalibrate confidence calibration and labels                       *)
(*                (ranker/confidence_calibrator.py, api.py)                *)
(*   SpecLocalize index + localize, text and prod variants                 *)
(*                (fault_localizer.py, fault_localizer_prod.py,            *)
(*                 indexer/code_indexer.py, ranker/llm_ranker.py)          *)
(*   SpecIndexing parallel and sequential indexing                         *)
(*                (fault_localizer_prod.py: index_codebase,                *)
(*                 indexer/code_indexer.py, indexer/*_parser.py)           *)
(*   SpecJobs     background indexing jobs and their readers               *)
(*                (indexer/background_indexer.py, api.py)                  *)
(*   SpecRetry    retry decorator (utils/retry.py)                         *)
(*   SpecCache    /localize with the query cache, /index invalidation      *)
(*                (api.py, cache/redis_cache.py)                           *)
(*                                                                         *)
(* Each section states the unit of its scores (merger: tenths).            *)
(***************************************************************************)
EXTENDS Integers, Sequences, FiniteSets, TLC

VARIABLES
    \* ---- candidate merger ----
    direct,      \* list[(entity, score)] from direct frame matches
    expanded,    \* list[(entity, score)] from call-graph expansion
    searched,    \* list[(entity, score)] from retrieval
    merged,      \* value returned by _merge_candidates
    mpc,         \* "idle" | "input" | "merged" | "mergedProd"
    \* ---- call graph ----
    entities,    \* the list[CodeEntity] handed to CallGraph.build
    nodes,       \* graph nodes (full names) in insertion order
    edges,       \* graph edges, <<caller full name, callee full name>>
    gpc,         \* "idle" | "empty" | "built" | "queried"
    query,       \* the pending/last get_callers / get_callees call
    result,      \* what that call returned, with traversal statistics
    \* ---- error extractors ----
    error_text,  \* the raw error text
    epc,         \* "idle" | "input" | the operation that ran
    accepts,     \* can_parse of each extractor on error_text
    extracted,   \* the ExtractedError returned
    \* ---- hybrid retriever ----
    corpus,      \* HybridRetriever.entities, the list handed to __init__
    rpc,         \* "idle" | "new" | "built" | "raised" | "searched"
    rcall,       \* the search call: arguments and what BM25 / the encoder gave
    retrieved,   \* value returned by search
    \* ---- confidence calibrator ----
    factors,     \* the CalibrationFactors handed to calibrate
    confidence,  \* the score calibrate returned / the score being labelled
    label,       \* the label returned for confidence
    cpc,         \* "idle" | "new" | "calibrated" | "labelled" | "apiLabelled"
    \* ---- localize (FaultLocalizer / FaultLocalizerProd) ----
    variant,           \* "idle" | "text" (FaultLocalizer) | "prod" (FaultLocalizerProd)
    codebase_path,     \* the directory that is / was indexed
    use_llm,           \* constructor argument: is a re-ranker configured
    indexer_entities,  \* CodeIndexer.entities / the store's documents
    lpc,               \* "idle" | "new" | "indexed" | "indexFailed" | "done" | "raised"
    lcall,             \* the localize call: arguments and intermediate lists
    lresult,           \* value returned by localize
    \* ---- parallel indexing (FaultLocalizerProd.index_codebase, CodeIndexer.index_directory) ----
    all_files,         \* the source files below the codebase directory, by what parsing them gives
    workers,           \* the workers argument of index_codebase
    batch_size,        \* max(1, len(all_files) // workers)
    futures,           \* the submitted batches: file range, thread state, entities returned
    ipc,               \* "idle" | "new" | "submit" | "collect" | "write" | "returned" | "raised"
    writing,           \* the batches whose store.index call is in progress
    store_log,         \* the store.index calls that completed, in order
    total_indexed,     \* the running / returned entity count
    dir_entities,      \* CodeIndexer.entities after index_directory
    \* ---- background indexing jobs (BackgroundIndexer) ----
    jobs,              \* BackgroundIndexer.jobs: the IndexJob objects, job n at position n
    threads,           \* the thread of each job: where it is in _run_job, what index_func does
    observed,          \* what the last status reader read, field by field
    \* ---- retry decorator (utils/retry.py) ----
    max_attempts,      \* decorator argument
    delay,             \* decorator argument: the first sleep
    backoff,           \* decorator argument: the delay multiplier
    attempt,           \* the loop variable of wrapper, attempts made so far
    current_delay,     \* wrapper's current_delay
    last_exception,    \* wrapper's last_exception ("None" or the exception caught last)
    invocations,       \* what each invocation of func did, in order
    sleeps,            \* the time.sleep calls made, in order
    wpc,               \* "idle" | "loop" | "returned" | "raised"
    wresult,           \* what wrapper returned or raised
    \* ---- API: /localize with the query cache, /index with cache invalidation (api.py, cache/redis_cache.py) ----
    index_version,     \* the index the store holds: 0 before the reindex, 1 after it
    cache_enabled,     \* QueryCache.enabled
    cache_entry,       \* the Redis entry of the query: <<>> or <<the index version its results came from>>
    reindex,           \* where the indexing job's do_index is: "idle" | "indexing" | "indexed" | "keys" | "finished"
    found_keys,        \* the keys invalidate got from client.keys
    requests           \* the /localize requests: where each handler is and what it holds

mergeVars == <<direct, expanded, searched, merged, mpc>>
graphVars == <<entities, nodes, edges, gpc, query, result>>
extractVars == <<error_text, epc, accepts, extracted>>
retrieveVars == <<corpus, rpc, rcall, retrieved>>
calibrateVars == <<factors, confidence, label, cpc>>
localizeVars == <<variant, codebase_path, use_llm, indexer_entities, lpc, lcall, lresult>>
indexVars == <<all_files, workers, batch_size, futures, ipc, writing, store_log, total_indexed, dir_entities>>
jobVars == <<jobs, threads, observed>>
retryVars == <<max_attempts, delay, backoff, attempt, current_delay, last_exception, invocations, sleeps, wpc, wresult>>
cacheVars == <<index_version, cache_enabled, cache_entry, reindex, found_keys, requests>>

vars == <<mergeVars, graphVars, extractVars, retrieveVars, calibrateVars, localizeVars, indexVars, jobVars, retryVars, cacheVars>>

(***************************************************************************)
(* Generic helpers                                                         *)
(***************************************************************************)
Range(s) == {s[i] : i \in 1..Len(s)}

SeqsUpTo(S, n) == UNION {[1..k -> S] : k \in 0..n}

SetMax(S) == CHOOSE x \in S : \A y \in S : y <= x

(***************************************************************************)
(* Values of each component's variables while another component is checked *)
(***************************************************************************)
MergeIdle ==
    /\ direct = <<>> /\ expanded = <<>> /\ searched = <<>>
    /\ merged = <<>> /\ mpc = "idle"

GraphIdle ==
    /\ entities = <<>> /\ nodes = <<>> /\ edges = {}
    /\ gpc = "idle" /\ query = <<>> /\ result = <<>>

ExtractIdle ==
    /\ error_text = <<>> /\ epc = "idle" /\ accepts = <<>> /\ extracted = <<>>

RetrieveIdle ==
    /\ corpus = <<>> /\ rpc = "idle" /\ rcall = <<>> /\ retrieved = <<>>

CalibrateIdle ==
    /\ factors = <<>> /\ confidence = 0 /\ label = "" /\ cpc = "idle"

LocalizeIdle ==
    /\ variant = "idle" /\ codebase_path = <<>> /\ use_llm = FALSE
    /\ indexer_entities = <<>> /\ lpc = "idle" /\ lcall = <<>> /\ lresult = <<>>

IndexIdle ==
    /\ all_files = <<>> /\ workers = 0 /\ batch_size = 0 /\ futures = <<>>
    /\ ipc = "idle" /\ writing = {} /\ store_log = <<>> /\ total_indexed = 0
    /\ dir_entities = <<>>

JobIdle ==
    /\ jobs = <<>> /\ threads = <<>> /\ observed = <<>>

RetryIdle ==
    /\ max_attempts = 0 /\ delay = 0 /\ backoff = 0 /\ attempt = 0 /\ current_delay = 0
    /\ last_exception = "None" /\ invocations = <<>> /\ sleeps = <<>>
    /\ wpc = "idle" /\ wresult = "None"

CacheIdle ==
    /\ index_version = 0 /\ cache_enabled = FALSE /\ cache_entry = <<>>
    /\ reindex = "idle" /\ found_keys = {} /\ requests = <<>>

(***************************************************************************)
(* Candidate merger                                                        *)
(***************************************************************************)
MaxLen == 2                      \* longest direct / searched list drawn as input
MaxExpanded == 1                 \* longest expanded list drawn as input

EntityIds == {"e1", "e2"}        \* CodeEntity.id values
Scores == {6, 9}                 \* candidate scores, in tenths

Candidate == [entity : EntityIds, score : Scores]

\* position of entity id `id` in the insertion-ordered dict `scores`, 0 if absent
IndexOfId(scores, id) ==
    IF \E i \in 1..Len(scores) : scores[i].entity = id
    THEN CHOOSE i \in 1..Len(scores) : scores[i].entity = id
    ELSE 0

\* a plausible slip: scores of duplicates are added up
UpdateScoreSum(scores, cand) ==
    LET i == IndexOfId(scores, cand.entity) IN
    IF i = 0 THEN Append(scores, cand)
    ELSE [scores EXCEPT ![i] = [entity |-> cand.entity, score |-> @.score + cand.score]]

\* fault_localizer.py:115-116: one iteration of the dedupe loop.  A dict keeps
\* the position of a key when its value is replaced.
UpdateScore(scores, cand) ==
    LET i == IndexOfId(scores, cand.entity) IN
    IF i = 0 THEN Append(scores, cand)
    ELSE IF scores[i].score < cand.score
         THEN [scores EXCEPT ![i] = cand]
         ELSE scores

\* fault_localizer.py:114-116: the loop over direct + expanded + searched
RECURSIVE DedupeLoop(_, _)
DedupeLoop(scores, cands) ==
    IF cands = <<>> THEN scores
    ELSE DedupeLoop(UpdateScore(scores, Head(cands)), Tail(cands))

\* a plausible slip: reverse=True forgotten, ascending order
InsertAscending(sorted, cand) ==
    LET k == Cardinality({i \in 1..Len(sorted) : sorted[i].score <= cand.score}) IN
    SubSeq(sorted, 1, k) \o <<cand>> \o SubSeq(sorted, k + 1, Len(sorted))

\* insertion step of the stable descending sort: cand goes after every element
\* whose score is >= its own (list.sort(reverse=True) keeps equal elements in
\* their original order)
InsertSorted(sorted, cand) ==
    LET k == Cardinality({i \in 1..Len(sorted) : sorted[i].score >= cand.score}) IN
    SubSeq(sorted, 1, k) \o <<cand>> \o SubSeq(sorted, k + 1, Len(sorted))

\* fault_localizer.py:119: merged.sort(key=lambda x: x[1], reverse=True)
RECURSIVE SortByScore(_)
SortByScore(s) ==
    IF s = <<>> THEN <<>>
    ELSE InsertSorted(SortByScore(SubSeq(s, 1, Len(s) - 1)), s[Len(s)])

\* a plausible slip: the arithmetic mean of an entity's scores is kept
MeanScore(cands, id) ==
    LET idx == {i \in 1..Len(cands) : cands[i].entity = id}
        RECURSIVE Sum(_)
        Sum(I) == IF I = {} THEN 0
                  ELSE LET i == CHOOSE j \in I : TRUE IN cands[i].score + Sum(I \ {i})
    IN Sum(idx) \div Cardinality(idx)

merge_candidates_mean(d, e, s) ==
    LET all == d \o e \o s
        firsts == DedupeLoop(<<>>, all)
    IN SortByScore([i \in 1..Len(firsts) |->
                      [entity |-> firsts[i].entity,
                       score |-> MeanScore(all, firsts[i].entity)]])

\* fault_localizer.py:105-120: FaultLocalizer._merge_candidates
merge_candidates(d, e, s) ==
    SortByScore(DedupeLoop(<<>>, d \o e \o s))

\* fault_localizer_prod.py:170-181: FaultLocalizerProd._merge_candidates
merge_candidates_prod(d, s) ==
    SortByScore(DedupeLoop(<<>>, d \o s))

InitMerge ==
    /\ direct \in SeqsUpTo(Candidate, MaxLen)
    /\ expanded \in SeqsUpTo(Candidate, MaxExpanded)
    /\ searched \in SeqsUpTo(Candidate, MaxLen)
    /\ merged = <<>>
    /\ mpc = "input"
    /\ GraphIdle /\ ExtractIdle /\ RetrieveIdle /\ CalibrateIdle /\ LocalizeIdle /\ IndexIdle /\ JobIdle /\ RetryIdle /\ CacheIdle

\* fault_localizer.py:54: all_candidates = self._merge_candidates(direct, expanded, search_results)
MergeCandidates ==
    /\ mpc = "input"
    /\ merged' = merge_candidates(direct, expanded, searched)
    /\ mpc' = "merged"
    /\ UNCHANGED <<direct, expanded, searched, graphVars, extractVars, retrieveVars, calibrateVars, localizeVars, indexVars, jobVars, retryVars, cacheVars>>

\* fault_localizer_prod.py:97: all_candidates = self._merge_candidates(direct_candidates, search_results)
MergeCandidatesProd ==
    /\ mpc = "input"
    /\ expanded = <<>>
    /\ merged' = merge_candidates_prod(direct, searched)
    /\ mpc' = "mergedProd"
    /\ UNCHANGED <<direct, expanded, searched, graphVars, extractVars, retrieveVars, calibrateVars, localizeVars, indexVars, jobVars, retryVars, cacheVars>>

NextMerge == MergeCandidates \/ MergeCandidatesProd

SpecMerge == InitMerge /\ [][NextMerge]_vars

\* the candidates handed to the merge that produced `merged`
MergeInput == direct \o expanded \o searched

InputScores(id) == {MergeInput[i].score : i \in {j \in 1..Len(MergeInput) : MergeInput[j].entity = id}}

PairSet(s) == {<<s[i].entity, s[i].score>> : i \in 1..Len(s)}

\* C1: after a merge (either variant) every output candidate carries the
\* maximum of the scores its entity id has in the inputs, never a sum or mean.
C1_MaxWins ==
    mpc \in {"merged", "mergedProd"} =>
        \A i \in 1..Len(merged) :
            /\ InputScores(merged[i].entity) # {}
            /\ merged[i].score = SetMax(InputScores(merged[i].entity))

\* C1 witness: an entity came in with 0.6 and 0.9 and merged to 0.9.
C1_Witness ==
    /\ mpc = "merged"
    /\ \E id \in EntityIds :
         /\ InputScores(id) = {6, 9}
         /\ \E i \in 1..Len(merged) : merged[i].entity = id /\ merged[i].score = 9

\* C2: the merged list has exactly one candidate per distinct input entity id
\* and is ordered by non-increasing score.
C2_OnePerIdSorted ==
    mpc \in {"merged", "mergedProd"} =>
        /\ {merged[i].entity : i \in 1..Len(merged)} = {MergeInput[i].entity : i \in 1..Len(MergeInput)}
        /\ \A i, j \in 1..Len(merged) : i # j => merged[i].entity # merged[j].entity
        /\ \A i \in 1..(Len(merged) - 1) : merged[i].score >= merged[i + 1].score

\* C2 witness: a duplicated id was collapsed and a lower-scored entity that
\* came first in the input ends up behind a higher-scored one.
C2_Witness ==
    /\ mpc = "merged"
    /\ Len(merged) = 2
    /\ Len(MergeInput) > 2
    /\ merged[1].score > merged[2].score
    /\ MergeInput[1].entity = merged[2].entity

\* C3: merge(merge(A,B), C) and merge(A,B,C) give the same set of
\* (entityId, maxScore) pairs.
C3_MergeAssociative ==
    /\ PairSet(merge_candidates(merge_candidates(direct, expanded, <<>>), searched, <<>>))
         = PairSet(merge_candidates(direct, expanded, searched))
    /\ mpc = "merged" =>
         PairSet(merge_candidates(merge_candidates(direct, expanded, <<>>), searched, <<>>))
           = PairSet(merged)

\* C3 witness: an entity's best score sits in A, a lower one in B and C, and
\* another entity appears only in C.
C3_Witness ==
    /\ mpc = "merged"
    /\ \E id \in EntityIds :
         /\ \E i \in 1..Len(direct) : direct[i].entity = id /\ direct[i].score = 9
         /\ \E i \in 1..Len(expanded) : expanded[i].entity = id /\ expanded[i].score = 6
         /\ \E i \in 1..Len(searched) : searched[i].entity = id /\ searched[i].score = 6
         /\ \E i \in 1..Len(searched) : searched[i].entity # id
         /\ \A i \in 1..Len(direct) : direct[i].entity = id
         /\ <<id, 9>> \in PairSet(merged)

(***************************************************************************)
(* Call graph                                                              *)
(*                                                                         *)
(* Names are strings of characters (tuples of one-character strings), so   *)
(* that full_name is a real dot-join and str.endswith is a real suffix     *)
(* test.                                                                   *)
(***************************************************************************)
MaxCalls == 1                    \* most callee names in one entity's calls
MaxDepth == 2                    \* largest depth argument drawn for a query

NoneStr == <<>>                  \* None (and "") for an Optional[str] field

\* The parsed entities (without their calls).  e3 and e4 are two top-level
\* functions named g in different files: PythonParser sets no package, so
\* their full names coincide.
EntityShapes ==
    << [id |-> "e1", name |-> <<"f">>, class_name |-> <<"A">>, package |-> NoneStr],
       [id |-> "e2", name |-> <<"f">>, class_name |-> <<"B">>, package |-> <<"p">>],
       [id |-> "e3", name |-> <<"g">>, class_name |-> NoneStr, package |-> NoneStr],
       [id |-> "e4", name |-> <<"g">>, class_name |-> NoneStr, package |-> NoneStr] >>

\* callee names found in entity bodies: short names, a qualified name, and a
\* name no entity has
CallNames == { <<"f">>, <<"p", ".", "B", ".", "f">>, <<"g">>, <<"x">> }

\* method names asked of get_callers / get_callees
QueryNames == { <<"A", ".", "f">>, <<"p", ".", "B", ".", "f">>, <<"g">>, <<"f">>, <<"x">> }

CallSets == {c \in SUBSET CallNames : Cardinality(c) <= MaxCalls}

\* entity lists handed to build: e1..e3 always, e4 optionally, in file order
EntityLists ==
    { [i \in 1..n |-> [id |-> EntityShapes[i].id, name |-> EntityShapes[i].name,
                       class_name |-> EntityShapes[i].class_name,
                       package |-> EntityShapes[i].package, calls |-> cs[i]]]
      : n \in {3, 4}, cs \in [1..4 -> CallSets] }

\* entities.py:29-37: CodeEntity.full_name
full_name(e) ==
    (IF e.package # NoneStr THEN e.package \o <<".">> ELSE <<>>)
    \o (IF e.class_name # NoneStr THEN e.class_name \o <<".">> ELSE <<>>)
    \o e.name

\* str.endswith
EndsWith(s, suffix) ==
    /\ Len(suffix) <= Len(s)
    /\ SubSeq(s, Len(s) - Len(suffix) + 1, Len(s)) = suffix

\* call_graph.py:11-12: add_node for every entity; a DiGraph keeps nodes in
\* first-insertion order and ignores a repeated add_node
RECURSIVE AddNodes(_, _)
AddNodes(ns, ents) ==
    IF ents = <<>> THEN ns
    ELSE LET fn == full_name(Head(ents)) IN
         AddNodes(IF \E i \in 1..Len(ns) : ns[i] = fn THEN ns ELSE Append(ns, fn),
                  Tail(ents))

\* call_graph.py:15-18,23: name_map.get(call, []) -- the entities filed under
\* `call`, by short name or by full name (as positions in the entity list)
name_map_get(ents, call) ==
    {i \in 1..Len(ents) : ents[i].name = call \/ full_name(ents[i]) = call}

\* call_graph.py:21-25: add_edge(entity.full_name, target.full_name)
BuildEdges(ents) ==
    { <<full_name(ents[i]), full_name(ents[t])>> :
        <<i, t>> \in { p \in (1..Len(ents)) \X (1..Len(ents)) :
                         \E call \in ents[p[1]].calls : p[2] \in name_map_get(ents, call) } }

Predecessors(es, n) == {e[1] : e \in {x \in es : x[2] = n}}
Successors(es, n) == {e[2] : e \in {x \in es : x[1] = n}}
Neighbours(es, n, dir) == IF dir = "callers" THEN Predecessors(es, n) ELSE Successors(es, n)

\* a plausible slip: the `not in callers` test is dropped
VisitUnguarded(st, p) ==
    [st EXCEPT !.found = @ \cup {p}, !.next_level = @ \cup {p},
               !.adds = [@ EXCEPT ![p] = @ + 1]]

\* call_graph.py:43-45: if pred not in callers: callers.add(pred); next_level.add(pred)
Visit(st, p) ==
    IF p \notin st.found
    THEN [st EXCEPT !.found = @ \cup {p}, !.next_level = @ \cup {p},
                    !.adds = [@ EXCEPT ![p] = @ + 1]]
    ELSE st

\* call_graph.py:41-45: the two nested for loops of one level, over the
\* (node, neighbour) pairs in some iteration order
RECURSIVE VisitAll(_, _)
VisitAll(st, pairs) ==
    IF pairs = {} THEN st
    ELSE LET x == CHOOSE y \in pairs : TRUE IN VisitAll(Visit(st, x[2]), pairs \ {x})

\* call_graph.py:40-46: one iteration of `for _ in range(depth)`
Level(st, es, dir) ==
    LET pairs == UNION { {<<n, p>> : p \in Neighbours(es, n, dir)} : n \in st.current }
        after == VisitAll([st EXCEPT !.next_level = {}], pairs)
    IN [after EXCEPT !.current = after.next_level, !.levels = @ + 1]

\* a plausible slip: range(depth + 1)
RECURSIVE LevelsOneMore(_, _, _, _)
LevelsOneMore(st, es, dir, depth) ==
    IF st.levels >= depth + 1 THEN st ELSE LevelsOneMore(Level(st, es, dir), es, dir, depth)

\* call_graph.py:39: for _ in range(depth)
RECURSIVE Levels(_, _, _, _)
Levels(st, es, dir, depth) ==
    IF st.levels >= depth THEN st ELSE Levels(Level(st, es, dir), es, dir, depth)

\* call_graph.py:29-34: literal node, else the first node (in node order)
\* that ends with the name; <<>> stands for "no node resolves"
Resolve(ns, method_name) ==
    IF \E i \in 1..Len(ns) : ns[i] = method_name THEN <<method_name>>
    ELSE LET matches == {i \in 1..Len(ns) : EndsWith(ns[i], method_name)} IN
         IF matches = {} THEN <<>>
         ELSE <<ns[CHOOSE i \in matches : \A j \in matches : i <= j]>>

\* call_graph.py:27-48 (get_callers) and 50-70 (get_callees): the returned
\* names as a set, with the number of levels run and of add() calls per node
Traverse(ns, es, method_name, depth, dir) ==
    LET start == Resolve(ns, method_name)
        zero == [n \in Range(ns) |-> 0]
    IN IF start = <<>>
       THEN [found |-> {}, current |-> {}, next_level |-> {}, levels |-> 0,
             adds |-> zero, resolved |-> <<>>]
       ELSE Levels([found |-> {}, current |-> {start[1]}, next_level |-> {},
                    levels |-> 0, adds |-> zero, resolved |-> start],
                   es, dir, depth)

get_callers(ns, es, method_name, depth) == Traverse(ns, es, method_name, depth, "callers")
get_callees(ns, es, method_name, depth) == Traverse(ns, es, method_name, depth, "callees")

\* call_graph.py:6-7: CallGraph() starts with an empty DiGraph
InitGraph ==
    /\ entities = <<>> /\ nodes = <<>> /\ edges = {}
    /\ gpc = "empty" /\ query = <<>> /\ result = <<>>
    /\ MergeIdle /\ ExtractIdle /\ RetrieveIdle /\ CalibrateIdle /\ LocalizeIdle /\ IndexIdle /\ JobIdle /\ RetryIdle /\ CacheIdle

\* call_graph.py:9-25: CallGraph.build(entities)
Build ==
    /\ gpc = "empty"
    /\ \E ents \in EntityLists :
         /\ entities' = ents
         /\ nodes' = AddNodes(nodes, ents)
         /\ edges' = edges \cup BuildEdges(ents)
    /\ gpc' = "built"
    /\ UNCHANGED <<query, result, mergeVars, extractVars, retrieveVars, calibrateVars, localizeVars, indexVars, jobVars, retryVars, cacheVars>>

\* call_graph.py:27-48: CallGraph.get_callers(method_name, depth)
GetCallers ==
    /\ gpc = "built"
    /\ \E m \in QueryNames, d \in 0..MaxDepth :
         /\ query' = [method_name |-> m, depth |-> d, dir |-> "callers"]
         /\ result' = get_callers(nodes, edges, m, d)
    /\ gpc' = "queried"
    /\ UNCHANGED <<entities, nodes, edges, mergeVars, extractVars, retrieveVars, calibrateVars, localizeVars, indexVars, jobVars, retryVars, cacheVars>>

\* call_graph.py:50-70: CallGraph.get_callees(method_name, depth)
GetCallees ==
    /\ gpc = "built"
    /\ \E m \in QueryNames, d \in 0..MaxDepth :
         /\ query' = [method_name |-> m, depth |-> d, dir |-> "callees"]
         /\ result' = get_callees(nodes, edges, m, d)
    /\ gpc' = "queried"
    /\ UNCHANGED <<entities, nodes, edges, mergeVars, extractVars, retrieveVars, calibrateVars, localizeVars, indexVars, jobVars, retryVars, cacheVars>>

NextGraph == Build \/ GetCallers \/ GetCallees

SpecGraph == InitGraph /\ [][NextGraph]_vars

\* nodes from which (callers) or to which (callees) m is joined by a walk of
\* exactly k edges
RECURSIVE ExactHops(_, _, _, _)
ExactHops(es, m, k, dir) ==
    IF k = 0 THEN {m}
    ELSE UNION {Neighbours(es, n, dir) : n \in ExactHops(es, m, k - 1, dir)}

WithinHops(es, m, d, dir) == UNION {ExactHops(es, m, k, dir) : k \in 1..d}

A_f == <<"A", ".", "f">>
pB_f == <<"p", ".", "B", ".", "f">>
g_ == <<"g">>

\* C4: for a node m and depth d, get_callers / get_callees return exactly the
\* nodes joined to m by a walk of 1..d edges (backward / forward).
C4_ExactDepthSet ==
    (gpc = "queried" /\ query.method_name \in Range(nodes)) =>
        result.found = WithinHops(edges, query.method_name, query.depth, query.dir)

\* C4 witness: on the chain A.f -> p.B.f -> g, get_callers(g, 1) is {p.B.f}:
\* A.f, two hops away, is left out.
C4_Witness ==
    /\ gpc = "queried"
    /\ edges = {<<A_f, pB_f>>, <<pB_f, g_>>}
    /\ query = [method_name |-> g_, depth |-> 1, dir |-> "callers"]
    /\ result.found = {pB_f}

\* C5: on any graph, cycles included, a traversal runs at most `depth`
\* levels and adds no node to its result more than once.
C5_BoundedNoRevisit ==
    gpc = "queried" =>
        /\ result.levels <= query.depth
        /\ \A n \in Range(nodes) : result.adds[n] <= 1

\* C5 witness: g calls itself and A.f and p.B.f call each other; a depth-2
\* traversal from a node on a cycle ran both levels and returned.
C5_Witness ==
    /\ gpc = "queried"
    /\ <<g_, g_>> \in edges
    /\ <<A_f, pB_f>> \in edges /\ <<pB_f, A_f>> \in edges
    /\ query.depth = 2
    /\ query.method_name \in {g_, A_f}
    /\ result.levels = 2
    /\ query.method_name \in result.found

\* C6: every entity's full name is a node, and for entities caller, target
\* the edge caller.fullName -> target.fullName exists iff caller.calls holds
\* target's name or full name.  Two entities with one full name (e3, e4)
\* share a node, and the edges of one are then attributed to the other.
C6_EdgeIffCall ==
    gpc \in {"built", "queried"} =>
        /\ \A i \in 1..Len(entities) : full_name(entities[i]) \in Range(nodes)
        /\ \A i, t \in 1..Len(entities) :
             (<<full_name(entities[i]), full_name(entities[t])>> \in edges)
               <=> (\E call \in entities[i].calls :
                      call = entities[t].name \/ call = full_name(entities[t]))

(***************************************************************************)
(* Error extractors                                                        *)
(*                                                                         *)
(* An error text is a string of characters (a tuple of one-character       *)
(* strings); the regular expressions of the extractors are evaluated on    *)
(* the characters, with Python's leftmost, greedy, backtracking semantics. *)
(***************************************************************************)
MaxLines == 3                    \* most lines in an error text drawn as input

MessageLimit == 200              \* error_text[:200]

Letters == {"a", "b", "c", "d", "e", "f", "g", "h", "i", "j", "k", "l", "m", "n", "o", "p", "q", "r", "s", "t", "u", "v", "w", "x", "y", "z", "A", "B", "C", "D", "E", "F", "G", "H", "I", "J", "K", "L", "M", "N", "O", "P", "Q", "R", "S", "T", "U", "V", "W", "X", "Y", "Z"}
Digits == {"0", "1", "2", "3", "4", "5", "6", "7", "8", "9"}
WordChars == Letters \cup Digits \cup {"_"}            \* \w
QualChars == WordChars \cup {".", "$"}                 \* [\w.$]
MethodChars == WordChars \cup {"<", ">"}               \* [\w<>]
DottedChars == WordChars \cup {"."}                    \* [\w.]

Unknown == <<"U", "n", "k", "n", "o", "w", "n">>

\* lines that error texts are made of
TracebackLine == <<"T", "r", "a", "c", "e", "b", "a", "c", "k", " ", "(", "m", "o", "s", "t", " ", "r", "e", "c", "e", "n", "t", " ", "c", "a", "l", "l", " ", "l", "a", "s", "t", ")", ":">>
PyFrameLine1 == <<" ", " ", "F", "i", "l", "e", " ", "\"", "a", ".", "p", "y", "\"", ",", " ", "l", "i", "n", "e", " ", "3", ",", " ", "i", "n", " ", "f">>
PyFrameLine2 == <<" ", " ", "F", "i", "l", "e", " ", "\"", "b", ".", "p", "y", "\"", ",", " ", "l", "i", "n", "e", " ", "7", ",", " ", "i", "n", " ", "h">>
PyPartialLine == <<" ", " ", "F", "i", "l", "e", " ", "\"", "c", ".", "p", "y", "\"", ",", " ", "l", "i", "n", "e", " ", "x", ",", " ", "i", "n", " ", "g">>
PyExcLine1 == <<"V", "a", "l", "u", "e", "E", "r", "r", "o", "r", ":", " ", "v">>
PyExcLine2 == <<"K", "e", "y", "E", "r", "r", "o", "r", ":", " ", "k">>
JavaExcLine == <<"a", ".", "X", "E", "r", "r", "o", "r", ":", " ", "m">>
JavaFrameLineTab == <<"\t", "a", "t", " ", "a", ".", "B", ".", "m", "(", "B", ".", "j", "a", "v", "a", ":", "4", "5", ")">>
JavaFrameLineSpaces == <<" ", " ", " ", " ", "a", "t", " ", "c", ".", "D", ".", "n", "(", "D", ".", "j", "a", "v", "a", ":", "1", "0", ")">>
JavaNativeLine == <<"\t", "a", "t", " ", "a", ".", "B", ".", "k", "(", "N", "a", "t", "i", "v", "e", " ", "M", "e", "t", "h", "o", "d", ")">>
FillerLine == [i \in 1..(MessageLimit + 1) |-> "="]     \* a separator line of 201 characters

LineLibrary ==
    { TracebackLine, PyFrameLine1, PyFrameLine2, PyPartialLine, PyExcLine1, PyExcLine2,
      JavaExcLine, JavaFrameLineTab, JavaFrameLineSpaces, JavaNativeLine, FillerLine }

\* "\n".join(lines)
RECURSIVE JoinLines(_)
JoinLines(ls) ==
    IF Len(ls) = 0 THEN <<>>
    ELSE IF Len(ls) = 1 THEN ls[1]
    ELSE ls[1] \o <<"\n">> \o JoinLines(Tail(ls))

ErrorTexts == {JoinLines(ls) : ls \in UNION {[1..k -> LineLibrary] : k \in 1..MaxLines}}

\* str.splitlines on "\n"
RECURSIVE SplitLines(_)
SplitLines(t) ==
    LET nl == {i \in 1..Len(t) : t[i] = "\n"} IN
    IF nl = {} THEN <<t>>
    ELSE LET i == CHOOSE j \in nl : \A k \in nl : j <= k IN
         <<SubSeq(t, 1, i - 1)>> \o SplitLines(SubSeq(t, i + 1, Len(t)))

\* the literal `lit` stands at position s of t
LitAt(t, s, lit) ==
    /\ s + Len(lit) - 1 <= Len(t)
    /\ \A k \in 1..Len(lit) : t[s + k - 1] = lit[k]

\* first position >= i whose character is not in the class (Len(t)+1 if none);
\* the class is `chars`, or its complement when neg is TRUE
RECURSIVE RunEnd(_, _, _, _)
RunEnd(t, i, chars, neg) ==
    IF i > Len(t) THEN i
    ELSE IF (t[i] \in chars) = neg THEN i
    ELSE RunEnd(t, i + 1, chars, neg)

\* int(digits)
RECURSIVE ToInt(_)
ToInt(ds) ==
    IF ds = <<>> THEN 0
    ELSE 10 * ToInt(SubSeq(ds, 1, Len(ds) - 1))
         + (CHOOSE n \in 0..9 : <<"0", "1", "2", "3", "4", "5", "6", "7", "8", "9">>[n + 1] = ds[Len(ds)])

NoMatch == [end |-> 0]

\* base.py:6-12: StackFrame
StackFrame(file_path, line_number, method_name, class_name, package) ==
    [file_path |-> file_path, line_number |-> line_number, method_name |-> method_name,
     class_name |-> class_name, package |-> package]

\* base.py:21-26: ExtractedError
ExtractedError(exception_type, message, frames, raw_text) ==
    [exception_type |-> exception_type, message |-> message, frames |-> frames,
     raw_text |-> raw_text]

(* ---------------- Python dialect ---------------- *)

\* python_extractor.py:15 TRACEBACK_MARKER, 17-18 can_parse
PythonCanParse(t) ==
    \E s \in 1..Len(t) : LitAt(t, s, <<"T", "r", "a", "c", "e", "b", "a", "c", "k", " ", "(", "m", "o", "s", "t", " ", "r", "e", "c", "e", "n", "t", " ", "c", "a", "l", "l", " ", "l", "a", "s", "t", ")">>)

\* python_extractor.py:7-9 FRAME_PATTERN  File "([^"]+)", line (\d+), in (\w+)
\* matched at position s; `end` is the position after the match
PyFrameAt(t, s) ==
    IF ~LitAt(t, s, <<"F", "i", "l", "e", " ", "\"">>) THEN NoMatch
    ELSE LET pe == RunEnd(t, s + 6, {"\""}, TRUE) IN
         IF pe = s + 6 \/ ~LitAt(t, pe, <<"\"", ",", " ", "l", "i", "n", "e", " ">>) THEN NoMatch
         ELSE LET de == RunEnd(t, pe + 8, Digits, FALSE) IN
              IF de = pe + 8 \/ ~LitAt(t, de, <<",", " ", "i", "n", " ">>) THEN NoMatch
              ELSE LET we == RunEnd(t, de + 5, WordChars, FALSE) IN
                   IF we = de + 5 THEN NoMatch
                   ELSE [end |-> we,
                         frame |-> StackFrame(SubSeq(t, s + 6, pe - 1),
                                              ToInt(SubSeq(t, pe + 8, de - 1)),
                                              SubSeq(t, de + 5, we - 1), <<>>, <<>>)]

\* positions after a line start: ^ under re.MULTILINE
LineStarts(t) == {1} \cup {i + 1 : i \in {k \in 1..Len(t) : t[k] = "\n"}}

\* python_extractor.py:11-13 EXCEPTION_PATTERN ^(\w+(?:Error|Exception|Warning)?): (.+)$
\* matched at line start s
PyExceptionAt(t, s) ==
    LET we == RunEnd(t, s, WordChars, FALSE) IN
    IF we = s \/ ~LitAt(t, we, <<":", " ">>) THEN NoMatch
    ELSE LET le == RunEnd(t, we + 2, {"\n"}, TRUE) IN
         IF le = we + 2 THEN NoMatch
         ELSE [end |-> le, exception_type |-> SubSeq(t, s, we - 1),
               message |-> SubSeq(t, we + 2, le - 1)]

(* ---------------- Java dialect ---------------- *)

\* java_extractor.py:7-9 FRAME_PATTERN  at ([\w.$]+)\.([\w<>]+)\(([^:]+):(\d+)\)
\* with the qualifier ending before the dot at position i
JavaFrameWithDot(t, s, i) ==
    LET me == RunEnd(t, i + 1, MethodChars, FALSE) IN
    IF me = i + 1 \/ ~LitAt(t, me, <<"(">>) THEN NoMatch
    ELSE LET c == RunEnd(t, me + 1, {":"}, TRUE) IN
         IF c = me + 1 \/ ~LitAt(t, c, <<":">>) THEN NoMatch
         ELSE LET de == RunEnd(t, c + 1, Digits, FALSE) IN
              IF de = c + 1 \/ ~LitAt(t, de, <<")">>) THEN NoMatch
              ELSE [end |-> de + 1, full_class |-> SubSeq(t, s + 3, i - 1),
                    method |-> SubSeq(t, i + 1, me - 1),
                    file_name |-> SubSeq(t, me + 1, c - 1),
                    line_num |-> SubSeq(t, c + 1, de - 1)]

\* java_extractor.py:24-26: parts = full_class.rsplit('.', 1)
SplitQualifier(full_class) ==
    LET dots == {i \in 1..Len(full_class) : full_class[i] = "."} IN
    IF dots = {} THEN [package |-> <<>>, class_name |-> full_class]
    ELSE LET i == CHOOSE j \in dots : \A k \in dots : j >= k IN
         [package |-> SubSeq(full_class, 1, i - 1),
          class_name |-> SubSeq(full_class, i + 1, Len(full_class))]

\* the pattern matched at position s: the greedy qualifier gives up characters
\* from the right until the rest matches, so the rightmost workable dot wins
JavaFrameAt(t, s) ==
    IF ~LitAt(t, s, <<"a", "t", " ">>) THEN NoMatch
    ELSE LET qe == RunEnd(t, s + 3, QualChars, FALSE)
             dots == {i \in (s + 4)..(qe - 1) :
                        t[i] = "." /\ JavaFrameWithDot(t, s, i) # NoMatch}
         IN IF dots = {} THEN NoMatch
            ELSE LET m == JavaFrameWithDot(t, s, CHOOSE i \in dots : \A k \in dots : i >= k)
                     q == SplitQualifier(m.full_class)
                 IN [end |-> m.end,
                     frame |-> StackFrame(m.file_name, ToInt(m.line_num), m.method,
                                          q.class_name, q.package)]

\* java_extractor.py:15 JAVA_MARKER  \tat [\w.$]+\.\w+\(   matched at position s
JavaMarkerAt(t, s) ==
    /\ LitAt(t, s, <<"\t", "a", "t", " ">>)
    /\ LET qe == RunEnd(t, s + 4, QualChars, FALSE) IN
       \E i \in (s + 5)..(qe - 1) :
           /\ t[i] = "."
           /\ LET we == RunEnd(t, i + 1, WordChars, FALSE) IN
              we > i + 1 /\ LitAt(t, we, <<"(">>)

\* java_extractor.py:17-18: can_parse
JavaCanParse(t) == \E s \in 1..Len(t) : JavaMarkerAt(t, s)

\* java_extractor.py:11-13 EXCEPTION_PATTERN ^([\w.]+(?:Exception|Error|Throwable)): (.+)$
JavaExceptionAt(t, s) ==
    LET we == RunEnd(t, s, DottedChars, FALSE)
        name == SubSeq(t, s, we - 1)
        EndsIn(suffix) == /\ Len(name) > Len(suffix)
                          /\ SubSeq(name, Len(name) - Len(suffix) + 1, Len(name)) = suffix
    IN
    IF \/ ~LitAt(t, we, <<":", " ">>)
       \/ ~(\/ EndsIn(<<"E", "x", "c", "e", "p", "t", "i", "o", "n">>)
            \/ EndsIn(<<"E", "r", "r", "o", "r">>)
            \/ EndsIn(<<"T", "h", "r", "o", "w", "a", "b", "l", "e">>))
    THEN NoMatch
    ELSE LET le == RunEnd(t, we + 2, {"\n"}, TRUE) IN
         IF le = we + 2 THEN NoMatch
         ELSE [end |-> le, exception_type |-> name,
               message |-> SubSeq(t, we + 2, le - 1)]

(* ---------------- finditer / search ---------------- *)

FrameAt(t, s, dialect) == IF dialect = "python" THEN PyFrameAt(t, s) ELSE JavaFrameAt(t, s)

ExceptionAt(t, s, dialect) ==
    IF dialect = "python" THEN PyExceptionAt(t, s) ELSE JavaExceptionAt(t, s)

\* FRAME_PATTERN.finditer: leftmost match at or after pos, then on from its end
RECURSIVE FindFrames(_, _, _, _)
FindFrames(t, starts, pos, dialect) ==
    LET later == {s \in starts : s >= pos} IN
    IF later = {} THEN <<>>
    ELSE LET s == CHOOSE x \in later : \A y \in later : x <= y
             m == FrameAt(t, s, dialect)
         IN <<m.frame>> \o FindFrames(t, starts, m.end, dialect)

\* python_extractor.py:21-27 / java_extractor.py:21-33: the frames loop
ExtractFrames(t, dialect) ==
    FindFrames(t, {s \in 1..Len(t) : FrameAt(t, s, dialect) # NoMatch}, 1, dialect)

\* EXCEPTION_PATTERN.search: the leftmost match
SearchException(t, dialect) ==
    LET hits == {s \in LineStarts(t) : ExceptionAt(t, s, dialect) # NoMatch} IN
    IF hits = {} THEN NoMatch
    ELSE ExceptionAt(t, CHOOSE x \in hits : \A y \in hits : x <= y, dialect)

\* python_extractor.py:20-41 / java_extractor.py:20-46: extract
Extract(t, dialect) ==
    LET exc == SearchException(t, dialect) IN
    ExtractedError(IF exc = NoMatch THEN Unknown ELSE exc.exception_type,
                   IF exc = NoMatch THEN <<>> ELSE exc.message,
                   ExtractFrames(t, dialect), t)

python_extract(t) == Extract(t, "python")
java_extract(t) == Extract(t, "java")

\* the degenerate result of _extract_error (fault_localizer.py:69-74)
Fallback(t) ==
    ExtractedError(Unknown,
                   SubSeq(t, 1, IF Len(t) < MessageLimit THEN Len(t) ELSE MessageLimit),
                   <<>>, t)

\* a plausible slip: the Java extractor is asked first
extract_error_java_first(t) ==
    IF JavaCanParse(t) THEN java_extract(t)
    ELSE IF PythonCanParse(t) THEN python_extract(t)
    ELSE Fallback(t)

\* fault_localizer.py:62-74: FaultLocalizer._extract_error
extract_error(t) ==
    IF PythonCanParse(t) THEN python_extract(t)
    ELSE IF JavaCanParse(t) THEN java_extract(t)
    ELSE Fallback(t)

\* fault_localizer_prod.py:157-168: FaultLocalizerProd._extract_error
extract_error_prod(t) ==
    IF PythonCanParse(t) THEN python_extract(t)
    ELSE IF JavaCanParse(t) THEN java_extract(t)
    ELSE Fallback(t)

InitExtract ==
    /\ error_text \in ErrorTexts
    /\ epc = "input"
    /\ accepts = <<>>
    /\ extracted = <<>>
    /\ MergeIdle /\ GraphIdle /\ RetrieveIdle /\ CalibrateIdle /\ LocalizeIdle /\ IndexIdle /\ JobIdle /\ RetryIdle /\ CacheIdle

\* python_extractor.py:17-18 and java_extractor.py:17-18: both can_parse
\* called on one text (as tests/test_extractors.py does)
CanParse ==
    /\ epc = "input"
    /\ accepts' = [python |-> PythonCanParse(error_text), java |-> JavaCanParse(error_text)]
    /\ epc' = "can_parse"
    /\ UNCHANGED <<error_text, extracted, mergeVars, graphVars, retrieveVars, calibrateVars, localizeVars, indexVars, jobVars, retryVars, cacheVars>>

\* python_extractor.py:20-41: PythonStackExtractor.extract
PythonExtract ==
    /\ epc = "input"
    /\ extracted' = python_extract(error_text)
    /\ epc' = "python_extract"
    /\ UNCHANGED <<error_text, accepts, mergeVars, graphVars, retrieveVars, calibrateVars, localizeVars, indexVars, jobVars, retryVars, cacheVars>>

\* java_extractor.py:20-46: JavaStackExtractor.extract
JavaExtract ==
    /\ epc = "input"
    /\ extracted' = java_extract(error_text)
    /\ epc' = "java_extract"
    /\ UNCHANGED <<error_text, accepts, mergeVars, graphVars, retrieveVars, calibrateVars, localizeVars, indexVars, jobVars, retryVars, cacheVars>>

\* fault_localizer.py:41: error = self._extract_error(error_text)
ExtractError ==
    /\ epc = "input"
    /\ extracted' = extract_error(error_text)
    /\ epc' = "extract_error"
    /\ UNCHANGED <<error_text, accepts, mergeVars, graphVars, retrieveVars, calibrateVars, localizeVars, indexVars, jobVars, retryVars, cacheVars>>

\* fault_localizer_prod.py:85: error = self._extract_error(error_text)
ExtractErrorProd ==
    /\ epc = "input"
    /\ extracted' = extract_error_prod(error_text)
    /\ epc' = "extract_error_prod"
    /\ UNCHANGED <<error_text, accepts, mergeVars, graphVars, retrieveVars, calibrateVars, localizeVars, indexVars, jobVars, retryVars, cacheVars>>

NextExtract == CanParse \/ PythonExtract \/ JavaExtract \/ ExtractError \/ ExtractErrorProd

SpecExtract == InitExtract /\ [][NextExtract]_vars

\* the first min(MessageLimit, len) characters of t
IsPrefixUpTo(m, t, n) ==
    /\ Len(m) = (IF Len(t) < n THEN Len(t) ELSE n)
    /\ \A i \in 1..Len(m) : m[i] = t[i]

\* C7: _extract_error (both localizers) uses the Python extractor when it
\* accepts the text, else the Java extractor when that accepts it, else
\* returns Unknown / first 200 characters / no frames / the whole text.
C7_ExtractErrorDispatch ==
    epc \in {"extract_error", "extract_error_prod"} =>
        LET py == PythonCanParse(error_text)
            jv == JavaCanParse(error_text)
        IN /\ py => extracted = python_extract(error_text)
           /\ (~py /\ jv) => extracted = java_extract(error_text)
           /\ (~py /\ ~jv) =>
                /\ extracted.exception_type = Unknown
                /\ IsPrefixUpTo(extracted.message, error_text, 200)
                /\ extracted.frames = <<>>
                /\ extracted.raw_text = error_text

\* C7 witness: a text of more than 200 characters that neither extractor
\* accepts came back as Unknown with a 200-character message.
C7_Witness ==
    /\ epc = "extract_error"
    /\ ~PythonCanParse(error_text) /\ ~JavaCanParse(error_text)
    /\ Len(error_text) > 200
    /\ extracted.exception_type = Unknown
    /\ Len(extracted.message) = 200
    /\ extracted.raw_text = error_text

\* a Python traceback: the marker line, frame lines, the exception line
WellFormedPythonTrace(t) ==
    LET ls == SplitLines(t) IN
    /\ Len(ls) >= 3
    /\ ls[1] = TracebackLine
    /\ \A i \in 2..(Len(ls) - 1) : ls[i] \in {PyFrameLine1, PyFrameLine2}
    /\ ls[Len(ls)] \in {PyExcLine1, PyExcLine2}

\* a Java stack trace: the exception line, then frame lines
\* `at <dotted.Class>.<method>(<File>:<line>)`, indented with spaces as in
\* tests/test_extractors.py or with a tab
WellFormedJavaTrace(t) ==
    LET ls == SplitLines(t) IN
    /\ Len(ls) >= 2
    /\ ls[1] = JavaExcLine
    /\ \A i \in 2..Len(ls) : ls[i] \in {JavaFrameLineSpaces, JavaFrameLineTab}

\* C8: a well-formed Python traceback is accepted by the Python extractor
\* and rejected by the Java one, and a well-formed Java trace is accepted by
\* the Java extractor and rejected by the Python one.
C8_DialectExclusive ==
    epc = "can_parse" =>
        /\ WellFormedPythonTrace(error_text) => (accepts.python /\ ~accepts.java)
        /\ WellFormedJavaTrace(error_text) => (accepts.java /\ ~accepts.python)

\* the frames of the lines that match the frame grammar, each line on its own
RECURSIVE FramesOfLines(_, _)
FramesOfLines(ls, dialect) ==
    IF ls = <<>> THEN <<>>
    ELSE ExtractFrames(Head(ls), dialect) \o FramesOfLines(Tail(ls), dialect)

\* C9: extract returns one frame per line that fully matches the frame
\* grammar, in text order, and drops partial matches; the Java qualifier is
\* split into package and class.
C9_FramePerMatchingLine ==
    /\ epc = "python_extract" =>
         extracted.frames = FramesOfLines(SplitLines(error_text), "python")
    /\ epc = "java_extract" =>
         extracted.frames = FramesOfLines(SplitLines(error_text), "java")

\* C10: with several lines matching the Python exception grammar, the type
\* and message of the last matching line are reported.
C10_LastExceptionLineWins ==
    epc = "python_extract" =>
        LET hits == {s \in LineStarts(error_text) : PyExceptionAt(error_text, s) # NoMatch} IN
        hits # {} =>
            LET last == PyExceptionAt(error_text, CHOOSE x \in hits : \A y \in hits : x >= y) IN
            /\ extracted.exception_type = last.exception_type
            /\ extracted.message = last.message

(***************************************************************************)
(* Hybrid retriever                                                        *)
(*                                                                         *)
(* BM25 scores and cosine similarities come from rank_bm25 and the         *)
(* sentence encoder; the model draws them from small sets.  Normalized     *)
(* BM25 is in thousandths, cosine similarity in tenths, and the combined   *)
(* score 0.4 * norm + 0.6 * dense in ten-thousandths.                      *)
(***************************************************************************)
MaxCorpus == 3                   \* most entities in the retriever's corpus

BM25Values == {0, 1, 2}          \* bm25.get_scores values
DenseValues == {2, 10}           \* cosine similarities, in tenths
PoolSizes == {0, 1, 2, 100}      \* bm25_candidates arguments (100 is the default)
SearchTopKs == {0, 1, 20}        \* top_k arguments (20 is the default)

\* entity lists handed to HybridRetriever: entity i with or without an embedding
Corpora ==
    UNION { { [i \in 1..k |-> [id |-> i, embedded |-> emb[i]]] : emb \in [1..k -> BOOLEAN] }
            : k \in 0..MaxCorpus }

Min2(a, b) == IF a <= b THEN a ELSE b
Max2(a, b) == IF a >= b THEN a ELSE b

Reverse(s) == [i \in 1..Len(s) |-> s[Len(s) + 1 - i]]

\* a[-n:] for n >= 0.  -0 is 0, so a[-0:] is a[0:], the whole list.
SliceLast(a, n) ==
    IF n = 0 THEN a ELSE SubSeq(a, Max2(1, Len(a) - n + 1), Len(a))

\* a[:k]: the first k elements, or all but the last -k when k is negative
SliceFirst(a, k) ==
    IF k >= 0 THEN SubSeq(a, 1, Min2(k, Len(a)))
    ELSE SubSeq(a, 1, Max2(0, Len(a) + k))

\* np.argsort(bm25_scores): the index orders that put the scores in
\* ascending order (the default sort kind promises no order among equals)
ArgSorts(scores) ==
    { p \in Permutations(1..Len(scores)) :
        \A i, j \in 1..Len(scores) : i < j => scores[p[i]] <= scores[p[j]] }

\* hybrid_retriever.py:51-55, in thousandths
normalize(score, all_scores) ==
    LET min_s == CHOOSE x \in Range(all_scores) : \A y \in Range(all_scores) : x <= y
        max_s == SetMax(Range(all_scores))
    IN IF max_s = min_s THEN 500
       ELSE (1000 * (score - min_s)) \div (max_s - min_s)

\* hybrid_retriever.py:36
Combined(bm25_score, bm25_scores, dense_score) ==
    4 * normalize(bm25_score, bm25_scores) + 600 * dense_score

\* hybrid_retriever.py:19-40.  `order` is what argsort returned, `dense` the
\* cosine similarity of the query to each entity.
search(ents, bm25_scores, dense, order, top_k, bm25_candidates) ==
    LET top_bm25_indices == Reverse(SliceLast(order, bm25_candidates))
        with_embedding == SelectSeq(top_bm25_indices, LAMBDA i : ents[i].embedded)
        scored == [k \in 1..Len(with_embedding) |->
                     [entity |-> ents[with_embedding[k]].id,
                      score |-> Combined(bm25_scores[with_embedding[k]], bm25_scores,
                                         dense[with_embedding[k]])]]
    IN SliceFirst(SortByScore(scored), top_k)

InitRetrieve ==
    /\ corpus = <<>> /\ rpc = "new" /\ rcall = <<>> /\ retrieved = <<>>
    /\ MergeIdle /\ GraphIdle /\ ExtractIdle /\ CalibrateIdle /\ LocalizeIdle /\ IndexIdle /\ JobIdle /\ RetryIdle /\ CacheIdle

\* hybrid_retriever.py:8-17.  BM25Okapi(tokenized) averages the document
\* length over the corpus (num_doc / corpus_size), which divides by zero for
\* an empty corpus: the constructor raises ZeroDivisionError.
RetrieverInit ==
    /\ rpc = "new"
    /\ \E ents \in Corpora :
         /\ corpus' = ents
         /\ rpc' = IF ents = <<>> THEN "raised" ELSE "built"
    /\ UNCHANGED <<rcall, retrieved, mergeVars, graphVars, extractVars, calibrateVars, localizeVars, indexVars, jobVars, retryVars, cacheVars>>

\* hybrid_retriever.py:19-40
Search ==
    /\ rpc = "built"
    /\ \E scores \in [1..Len(corpus) -> BM25Values],
          dense \in [1..Len(corpus) -> DenseValues],
          top_k \in SearchTopKs, n \in PoolSizes :
         \E order \in ArgSorts(scores) :
            /\ rcall' = [bm25_scores |-> scores, dense |-> dense, order |-> order,
                         top_k |-> top_k, bm25_candidates |-> n]
            /\ retrieved' = search(corpus, scores, dense, order, top_k, n)
    /\ rpc' = "searched"
    /\ UNCHANGED <<corpus, mergeVars, graphVars, extractVars, calibrateVars, localizeVars, indexVars, jobVars, retryVars, cacheVars>>

NextRetrieve == RetrieverInit \/ Search

SpecRetrieve == InitRetrieve /\ [][NextRetrieve]_vars

\* entities with a strictly higher BM25 score than entity i in the last call
Better(i) == {j \in 1..Len(corpus) : rcall.bm25_scores[j] > rcall.bm25_scores[i]}

\* C11: for every pool size n >= 0, every entity search returns is one of the
\* n entities with the highest BM25 score (fewer than n entities score
\* strictly higher); an entity outside that pool never appears.
C11_PoolGating ==
    rpc = "searched" =>
        \A k \in 1..Len(retrieved) :
            Cardinality(Better(retrieved[k].entity)) < rcall.bm25_candidates

\* the BM25 scores of the candidate pool of the last call
PoolScores ==
    LET pool == SliceLast(rcall.order,
                          Min2(Max2(rcall.bm25_candidates, 0), Len(corpus)))
    IN IF rcall.bm25_candidates = 0 THEN <<>>
       ELSE [k \in 1..Len(pool) |-> rcall.bm25_scores[pool[k]]]

\* C12: the BM25 score of each returned candidate is min-max scaled over the
\* scores of the candidate pool: its combined score is 0.4 times that value
\* (1 for the best of the pool, 0 for the worst, 0.5 when all are equal) plus
\* 0.6 times its cosine similarity.
C12_NormalizedOverPool ==
    (rpc = "searched" /\ rcall.bm25_candidates > 0) =>
        \A k \in 1..Len(retrieved) :
            LET i == retrieved[k].entity
                lo == CHOOSE x \in Range(PoolScores) : \A y \in Range(PoolScores) : x <= y
                hi == SetMax(Range(PoolScores))
                norm == IF hi = lo THEN 500
                        ELSE (1000 * (rcall.bm25_scores[i] - lo)) \div (hi - lo)
            IN retrieved[k].score = 4 * norm + 600 * rcall.dense[i]

\* C13: a retriever built over an empty entity list does not raise and its
\* search returns the empty list.
C13_EmptyCorpusEmptyResult ==
    (corpus = <<>> /\ rpc # "new") =>
        /\ rpc # "raised"
        /\ rpc = "searched" => retrieved = <<>>

(***************************************************************************)
(* Confidence calibrator                                                   *)
(*                                                                         *)
(* Factor values are in tenths (1.0 -> 10), weights in hundredths          *)
(* (0.35 -> 35), confidence scores in thousandths (0.8 -> 800).            *)
(***************************************************************************)
MaxDistance == 6                 \* largest call_graph_distance drawn as input

\* stack_trace_match: 0 for no match, 0.9 for a name match, 1.0 for a direct
\* match, and a value in between
StackTraceMatches == {0, 5, 9, 10}
\* call_graph_distance: hops from the stack trace, -1 for "not reachable"
Distances == (-1)..MaxDistance
\* semantic_score, bm25_score: raw retrieval outputs, not confined to [0,1]
SemanticScores == {-10, 0, 3, 10, 25}
BM25Scores == {-5, 0, 5, 10, 30}

CalibrationFactors ==
    [stack_trace_match : StackTraceMatches, call_graph_distance : Distances,
     semantic_score : SemanticScores, bm25_score : BM25Scores,
     file_path_match : BOOLEAN, method_name_match : BOOLEAN]

\* scores handed to the label functions, around and beyond every threshold
LabelScores == (-20)..1020

\* confidence_calibrator.py:22-28, in hundredths
WEIGHTS ==
    [stack_trace_match |-> 35, call_graph_proximity |-> 20,
     semantic_similarity |-> 25, keyword_match |-> 15, context_match |-> 5]

\* a plausible slip: the floor at 0 is forgotten
ProximityUnfloored(distance) == 10 - distance * 2

\* confidence_calibrator.py:44: max(0, 1 - distance * 0.2), in tenths
Proximity(distance) == Max2(0, 10 - distance * 2)

\* a plausible slip: the match is read as a distance, 1 - stack_trace_match
calibrate_inverted_match(f) ==
    LET s1 == IF f.stack_trace_match > 0
              THEN WEIGHTS.stack_trace_match * (10 - f.stack_trace_match) ELSE 0
        s2 == IF f.call_graph_distance >= 0
              THEN s1 + WEIGHTS.call_graph_proximity * Proximity(f.call_graph_distance)
              ELSE s1
        s3 == s2 + WEIGHTS.semantic_similarity * f.semantic_score
        s4 == s3 + WEIGHTS.keyword_match * Min2(10, f.bm25_score)
        context_score == (IF f.file_path_match THEN 5 ELSE 0)
                         + (IF f.method_name_match THEN 5 ELSE 0)
        s5 == s4 + WEIGHTS.context_match * context_score
    IN Min2(1000, Max2(0, s5))

\* confidence_calibrator.py:30-61
calibrate(f) ==
    LET s1 == IF f.stack_trace_match > 0
              THEN WEIGHTS.stack_trace_match * f.stack_trace_match ELSE 0
        s2 == IF f.call_graph_distance >= 0
              THEN s1 + WEIGHTS.call_graph_proximity * Proximity(f.call_graph_distance)
              ELSE s1
        s3 == s2 + WEIGHTS.semantic_similarity * f.semantic_score
        s4 == s3 + WEIGHTS.keyword_match * Min2(10, f.bm25_score)
        context_score == (IF f.file_path_match THEN 5 ELSE 0)
                         + (IF f.method_name_match THEN 5 ELSE 0)
        s5 == s4 + WEIGHTS.context_match * context_score
    IN Min2(1000, Max2(0, s5))

\* confidence_calibrator.py:63-72
get_confidence_label(score) ==
    IF score >= 800 THEN "high"
    ELSE IF score >= 500 THEN "medium"
    ELSE IF score >= 300 THEN "low"
    ELSE "very_low"

\* a plausible slip: the top boundary is exclusive
api_get_confidence_label_strict(score) ==
    IF score > 800 THEN "high"
    ELSE IF score >= 500 THEN "medium"
    ELSE IF score >= 300 THEN "low"
    ELSE "very_low"

\* api.py:324-332: _get_confidence_label
api_get_confidence_label(score) ==
    IF score >= 800 THEN "high"
    ELSE IF score >= 500 THEN "medium"
    ELSE IF score >= 300 THEN "low"
    ELSE "very_low"

InitCalibrate ==
    /\ factors = <<>> /\ confidence = 0 /\ label = "" /\ cpc = "new"
    /\ MergeIdle /\ GraphIdle /\ ExtractIdle /\ RetrieveIdle /\ LocalizeIdle /\ IndexIdle /\ JobIdle /\ RetryIdle /\ CacheIdle

\* confidence_calibrator.py:30-61: calibrate(factors)
Calibrate ==
    /\ cpc = "new"
    /\ \E f \in CalibrationFactors :
         /\ factors' = f
         /\ confidence' = calibrate(f)
    /\ cpc' = "calibrated"
    /\ UNCHANGED <<label, mergeVars, graphVars, extractVars, retrieveVars, localizeVars, indexVars, jobVars, retryVars, cacheVars>>

\* the scores a label is asked for: the calibrated score, or any score
ScoresToLabel == IF cpc = "calibrated" THEN {confidence} ELSE LabelScores

\* confidence_calibrator.py:63-72: get_confidence_label(score)
GetConfidenceLabel ==
    /\ cpc \in {"new", "calibrated"}
    /\ \E score \in ScoresToLabel :
         /\ confidence' = score
         /\ label' = get_confidence_label(score)
    /\ cpc' = "labelled"
    /\ UNCHANGED <<factors, mergeVars, graphVars, extractVars, retrieveVars, localizeVars, indexVars, jobVars, retryVars, cacheVars>>

\* api.py:212,247: confidence_label=_get_confidence_label(confidence)
ApiGetConfidenceLabel ==
    /\ cpc \in {"new", "calibrated"}
    /\ \E score \in ScoresToLabel :
         /\ confidence' = score
         /\ label' = api_get_confidence_label(score)
    /\ cpc' = "apiLabelled"
    /\ UNCHANGED <<factors, mergeVars, graphVars, extractVars, retrieveVars, localizeVars, indexVars, jobVars, retryVars, cacheVars>>

NextCalibrate == Calibrate \/ GetConfidenceLabel \/ ApiGetConfidenceLabel

SpecCalibrate == InitCalibrate /\ [][NextCalibrate]_vars

\* C14: calibrate returns 0.35*stackTraceMatch + 0.20*proximity +
\* 0.25*semanticScore + 0.15*min(1, bm25Score) + 0.05*(0.5 per true boolean),
\* clamped to [0,1], with proximity = max(0, 1 - 0.2*distance) and no
\* proximity term when the distance is -1; the result is within [0,1].
C14_WeightedSumClamped ==
    cpc = "calibrated" =>
        LET proximity == IF 10 - 2 * factors.call_graph_distance > 0
                         THEN 10 - 2 * factors.call_graph_distance ELSE 0
            proximity_term == IF factors.call_graph_distance = -1 THEN 0 ELSE 20 * proximity
            keyword == IF factors.bm25_score < 10 THEN factors.bm25_score ELSE 10
            booleans == Cardinality({b \in {"file", "method"} :
                           \/ b = "file" /\ factors.file_path_match
                           \/ b = "method" /\ factors.method_name_match})
            sum == 35 * factors.stack_trace_match + proximity_term
                   + 25 * factors.semantic_score + 15 * keyword + 5 * (5 * booleans)
        IN /\ confidence = (IF sum < 0 THEN 0 ELSE IF sum > 1000 THEN 1000 ELSE sum)
           /\ confidence \in 0..1000

\* C14 witness: an entity six hops away (proximity floored at 0) with a name
\* match, one context boolean and mid-range retrieval scores: 0.315 + 0 +
\* 0.075 + 0.075 + 0.025 = 0.49.
C14_Witness ==
    /\ cpc = "calibrated"
    /\ factors = [stack_trace_match |-> 9, call_graph_distance |-> 6,
                  semantic_score |-> 3, bm25_score |-> 5,
                  file_path_match |-> TRUE, method_name_match |-> FALSE]
    /\ confidence = 490

\* C15: of two factor sets that differ only in stackTraceMatch (in [0,1]),
\* the one with the larger stackTraceMatch never gets the smaller score.
C15_MonotoneInStackTraceMatch ==
    cpc = "calibrated" =>
        \A m \in StackTraceMatches :
            m >= factors.stack_trace_match =>
                calibrate([factors EXCEPT !.stack_trace_match = m]) >= confidence

\* C15 witness: with everything else fixed and nothing clamped, raising the
\* match from 0 to 1.0 raises the score by 0.35.
C15_Witness ==
    /\ cpc = "calibrated"
    /\ factors.stack_trace_match = 0
    /\ calibrate([factors EXCEPT !.stack_trace_match = 10]) = confidence + 350

\* the label the thresholds 0.8 / 0.5 / 0.3 give, boundaries inclusive
LabelOf(score) ==
    CASE score >= 800 -> "high"
      [] score < 800 /\ score >= 500 -> "medium"
      [] score < 500 /\ score >= 300 -> "low"
      [] score < 300 -> "very_low"

\* C16: the label is "high" from 0.8, "medium" from 0.5, "low" from 0.3, else
\* "very_low", and the API's _get_confidence_label gives every score the
\* label ConfidenceCalibrator.get_confidence_label gives it.
C16_LabelsAgree ==
    cpc \in {"labelled", "apiLabelled"} =>
        /\ label = LabelOf(confidence)
        /\ api_get_confidence_label(confidence) = get_confidence_label(confidence)

\* C16 witness: the API function labels exactly 0.8 "high".
C16_Witness ==
    /\ cpc = "apiLabelled"
    /\ confidence = 800
    /\ label = "high"


(***************************************************************************)
(* Localization: index, then localize (text variant FaultLocalizer, prod   *)
(* variant FaultLocalizerProd).                                            *)
(*                                                                         *)
(* Candidate scores are in ten-thousandths here (1.0 -> 10000), the unit   *)
(* of the retriever's combined score.  Paths and names are strings of      *)
(* characters.                                                             *)
(***************************************************************************)
DirectScore == 10000             \* 1.0: the frame's line lies in the entity
NameScore == 9000                \* 0.9: the frame's method name matches
ExpandedScore == 7000            \* 0.7: a caller of a frame's method
CallerDepth == 2                 \* get_callers(..., depth=2)
SearchTopK == 20                 \* retriever.search(query, top_k=20)
DefaultPool == 100               \* search's default bm25_candidates
PromptCap == 15                  \* _build_prompt shows candidates[:15]

TopKs == {0, 1, 5}               \* top_k arguments of localize (5 is the default)

ValidatorPy == <<"a", "p", "p", "/", "v", "a", "l", "i", "d", "a", "t", "o", "r", ".", "p", "y">>
OtherPy == <<"a", "p", "p", "/", "o", "t", "h", "e", "r", ".", "p", "y">>
ProcessorPy == <<"a", "p", "p", "/", "p", "r", "o", "c", "e", "s", "s", "o", "r", ".", "p", "y">>
CheckSchema == <<"_", "c", "h", "e", "c", "k", "_", "s", "c", "h", "e", "m", "a">>
ValidateName == <<"v", "a", "l", "i", "d", "a", "t", "e">>
ProcessName == <<"p", "r", "o", "c", "e", "s", "s">>
DataValidator == <<"D", "a", "t", "a", "V", "a", "l", "i", "d", "a", "t", "o", "r">>

\* the directories a codebase is indexed from: the working directory, and
\* a directory named by an absolute path
CodebasePaths == { <<".">>, <<"/", "r">> }

\* functions the parsers find in the files below the codebase directory
\* (path relative to the directory)
SrcCheckSchema ==
    [id |-> "e1", name |-> CheckSchema, class_name |-> DataValidator, package |-> NoneStr,
     file |-> ValidatorPy, start_line |-> 15, end_line |-> 25, calls |-> {}]
SrcValidate ==
    [id |-> "e2", name |-> ValidateName, class_name |-> DataValidator, package |-> NoneStr,
     file |-> ValidatorPy, start_line |-> 12, end_line |-> 14, calls |-> {CheckSchema}]
SrcOtherCheckSchema ==
    [id |-> "e3", name |-> CheckSchema, class_name |-> NoneStr, package |-> NoneStr,
     file |-> OtherPy, start_line |-> 3, end_line |-> 9, calls |-> {}]
SrcProcess ==
    [id |-> "e4", name |-> ProcessName, class_name |-> NoneStr, package |-> NoneStr,
     file |-> ProcessorPy, start_line |-> 12, end_line |-> 16, calls |-> {ValidateName}]

SrcOtherValidate ==
    [id |-> "e5", name |-> ValidateName, class_name |-> NoneStr, package |-> NoneStr,
     file |-> OtherPy, start_line |-> 20, end_line |-> 22, calls |-> {}]

\* codebases: nothing parsable, the one function, the function and a
\* namesake in another file, a call chain process -> validate ->
\* _check_schema, and validate -> _check_schema beside a function that is
\* also named validate and calls nothing
Codebases ==
    { <<>>, <<SrcCheckSchema>>, <<SrcCheckSchema, SrcOtherCheckSchema>>,
      <<SrcValidate, SrcCheckSchema, SrcProcess>>,
      <<SrcValidate, SrcCheckSchema, SrcOtherValidate>> }

\* python_parser.py:41: file_path=str(file_path), the path rglob yields:
\* the directory joined with the relative path ("." joins to nothing)
PathStr(dir, rel) == IF dir = <<".">> THEN rel ELSE dir \o <<"/">> \o rel

\* code_indexer.py:15-36: the entities of the files below `path`, each
\* with an embedding
index_directory(path, sources) ==
    [i \in 1..Len(sources) |->
        [id |-> sources[i].id, name |-> sources[i].name,
         class_name |-> sources[i].class_name, package |-> sources[i].package,
         file_path |-> PathStr(path, sources[i].file),
         start_line |-> sources[i].start_line, end_line |-> sources[i].end_line,
         calls |-> sources[i].calls, embedded |-> TRUE]]

\* code_indexer.py:45-46 (positions in the entity dict, in insertion order)
get_entities_by_file(ents, file_path) ==
    SelectSeq([i \in 1..Len(ents) |-> i], LAMBDA i : ents[i].file_path = file_path)

\* code_indexer.py:48-49
get_entities_by_name(ents, name) ==
    SelectSeq([i \in 1..Len(ents) |-> i],
              LAMBDA i : ents[i].name = name \/ EndsWith(full_name(ents[i]), name))

\* opensearch_store.py:146-161: term on name, or wildcard *name on full_name
get_by_name(ents, name) ==
    SelectSeq([i \in 1..Len(ents) |-> i],
              LAMBDA i : ents[i].name = name \/ EndsWith(full_name(ents[i]), name))

\* fault_localizer.py:81-84: the entities of the frame's file whose line
\* range holds the frame's line, at 1.0
FileMatches(ents, frame) ==
    LET in_range == SelectSeq(get_entities_by_file(ents, frame.file_path),
                      LAMBDA i : ents[i].start_line <= frame.line_number
                                 /\ frame.line_number <= ents[i].end_line)
    IN [k \in 1..Len(in_range) |-> [entity |-> ents[in_range[k]].id, score |-> DirectScore]]

\* fault_localizer.py:87-90: the entities named like the frame's method, at
\* 0.9 unless (entity, 1.0) is already a candidate
RECURSIVE NameMatches(_, _, _)
NameMatches(ents, candidates, method_entities) ==
    IF method_entities = <<>> THEN candidates
    ELSE LET e == ents[Head(method_entities)].id IN
         NameMatches(ents,
             IF [entity |-> e, score |-> DirectScore] \notin Range(candidates)
             THEN Append(candidates, [entity |-> e, score |-> NameScore])
             ELSE candidates,
             Tail(method_entities))

\* fault_localizer.py:76-92: _get_direct_candidates, frames still to do
RECURSIVE DirectLoop(_, _, _)
DirectLoop(ents, candidates, frames) ==
    IF frames = <<>> THEN candidates
    ELSE DirectLoop(ents,
             NameMatches(ents, candidates \o FileMatches(ents, Head(frames)),
                         get_entities_by_name(ents, Head(frames).method_name)),
             Tail(frames))

get_direct_candidates(ents, error) == DirectLoop(ents, <<>>, error.frames)

\* fault_localizer_prod.py:90-94: every entity get_by_name finds, at 1.0
RECURSIVE get_direct_candidates_prod(_, _)
get_direct_candidates_prod(ents, frames) ==
    IF frames = <<>> THEN <<>>
    ELSE LET found == get_by_name(ents, Head(frames).method_name) IN
         [k \in 1..Len(found) |-> [entity |-> ents[found[k]].id, score |-> DirectScore]]
         \o get_direct_candidates_prod(ents, Tail(frames))

\* caller_name.split(".")[-1]
SplitLast(name) ==
    LET dots == {i \in 1..Len(name) : name[i] = "."} IN
    IF dots = {} THEN name ELSE SubSeq(name, SetMax(dots) + 1, Len(name))

\* the orders in which a set can be iterated
Orderings(S) ==
    {p \in [1..Cardinality(S) -> S] : \A i, j \in 1..Cardinality(S) : i # j => p[i] # p[j]}

\* fault_localizer.py:99-102: the entities of the callers, in one iteration
\* order of the caller list, at 0.7
RECURSIVE ExpandCallers(_, _)
ExpandCallers(ents, callers) ==
    IF callers = <<>> THEN <<>>
    ELSE LET found == get_entities_by_name(ents, SplitLast(Head(callers))) IN
         [k \in 1..Len(found) |-> [entity |-> ents[found[k]].id, score |-> ExpandedScore]]
         \o ExpandCallers(ents, Tail(callers))

\* fault_localizer.py:94-103: _expand_via_graph: the lists it can return
\* (get_callers returns list(set), whose order is not fixed)
RECURSIVE expand_via_graph(_, _)
expand_via_graph(ents, frames) ==
    IF frames = <<>> THEN {<<>>}
    ELSE LET callers == get_callers(AddNodes(<<>>, ents), BuildEdges(ents),
                                    Head(frames).method_name, CallerDepth).found
         IN { ExpandCallers(ents, order) \o rest :
                order \in Orderings(callers), rest \in expand_via_graph(ents, Tail(frames)) }

\* a plausible slip: the truncation is left out
TruncateResultsAll(all_candidates, top_k) ==
    [k \in 1..Len(all_candidates) |->
        [entity |-> all_candidates[k].entity, score |-> all_candidates[k].score, reason |-> ""]]

\* fault_localizer.py:60: all_candidates[:top_k], each with an empty reason
TruncateResults(all_candidates, top_k) ==
    LET kept == SliceFirst(all_candidates, top_k) IN
    [k \in 1..Len(kept) |-> [entity |-> kept[k].entity, score |-> kept[k].score, reason |-> ""]]

(* ---------------- re-ranker ---------------- *)

\* what the model call gives: it raises, or its reply holds no JSON array
\* that parses, or an array whose items are not objects, or a ranking (of
\* the second candidate, of a candidate that does not exist, of the first)
Ranking ==
    << [index |-> 1, confidence |-> 9, reason |-> "r"],
       [index |-> 7, confidence |-> 8, reason |-> "r"],
       [index |-> 0, confidence |-> 5, reason |-> "r"] >>

\* a ranking that names the first candidate twice and then the last one
RepeatedRanking ==
    << [index |-> 0, confidence |-> 9, reason |-> "r"],
       [index |-> 0, confidence |-> 8, reason |-> "r"],
       [index |-> -1, confidence |-> 5, reason |-> "r"] >>

Replies ==
    { [kind |-> k, rankings |-> <<>>] : k \in {"raises", "unparsable", "not_objects"} }
    \cup { [kind |-> "rankings", rankings |-> Ranking],
           [kind |-> "rankings", rankings |-> RepeatedRanking] }

NoReply == [kind |-> "none", rankings |-> <<>>]      \* no re-ranker, no model call

\* candidates[idx] for idx < len(candidates): a negative idx counts from the
\* end of the list
PyItem(candidates, idx) ==
    IF idx >= 0 THEN candidates[idx + 1] ELSE candidates[Len(candidates) + idx + 1]

\* llm_ranker.py:69-80: the loop over rankings[:top_k]
RECURSIVE RankLoop(_, _)
RankLoop(rankings, candidates) ==
    IF rankings = <<>> THEN <<>>
    ELSE LET r == Head(rankings) IN
         (IF r.index < Len(candidates)
          THEN <<[entity |-> PyItem(candidates, r.index).entity,
                  retrieval_score |-> PyItem(candidates, r.index).score,
                  confidence |-> r.confidence, reason |-> r.reason]>>
          ELSE <<>>)
         \o RankLoop(Tail(rankings), candidates)

\* llm_ranker.py:62-83: _parse_response.  json.JSONDecodeError is caught
\* and answered with the candidates by retrieval score; r.get on an item
\* that is no object raises AttributeError and an index below
\* -len(candidates) raises IndexError, neither of which is caught.
parse_response(reply, candidates, top_k) ==
    IF reply.kind = "unparsable"
    THEN [raised |-> FALSE,
          value |-> LET kept == SliceFirst(candidates, top_k) IN
                    [k \in 1..Len(kept) |->
                       [entity |-> kept[k].entity, retrieval_score |-> kept[k].score,
                        confidence |-> 0, reason |-> ""]]]
    ELSE IF reply.kind = "not_objects" THEN [raised |-> TRUE, value |-> <<>>]
    ELSE IF \E k \in 1..Len(SliceFirst(reply.rankings, top_k)) :
                reply.rankings[k].index < 0 - Len(candidates)
    THEN [raised |-> TRUE, value |-> <<>>]
    ELSE [raised |-> FALSE,
          value |-> RankLoop(SliceFirst(reply.rankings, top_k), candidates)]

\* llm_ranker.py:12-32: rank_and_explain.  invoke_model is not guarded: an
\* exception of the model call leaves rank_and_explain.
rank_and_explain(reply, candidates, top_k) ==
    IF reply.kind = "raises" THEN [raised |-> TRUE, value |-> <<>>]
    ELSE parse_response(reply, candidates, top_k)

\* fault_localizer.py:56-60 / fault_localizer_prod.py:99-102
Rank(llm, reply, all_candidates, top_k) ==
    IF llm THEN rank_and_explain(reply, all_candidates, top_k)
    ELSE [raised |-> FALSE, value |-> TruncateResults(all_candidates, top_k)]

(* ---------------- inputs ---------------- *)

FrameLineCheckSchema == <<" ", " ", "F", "i", "l", "e", " ", "\"", "a", "p", "p", "/", "v", "a", "l", "i", "d", "a", "t", "o", "r", ".", "p", "y", "\"", ",", " ", "l", "i", "n", "e", " ", "2", "2", ",", " ", "i", "n", " ", "_", "c", "h", "e", "c", "k", "_", "s", "c", "h", "e", "m", "a">>
FrameLineValidate == <<" ", " ", "F", "i", "l", "e", " ", "\"", "a", "p", "p", "/", "v", "a", "l", "i", "d", "a", "t", "o", "r", ".", "p", "y", "\"", ",", " ", "l", "i", "n", "e", " ", "1", "3", ",", " ", "i", "n", " ", "v", "a", "l", "i", "d", "a", "t", "e">>
FrameLineElsewhere == <<" ", " ", "F", "i", "l", "e", " ", "\"", "l", "i", "b", "/", "x", ".", "p", "y", "\"", ",", " ", "l", "i", "n", "e", " ", "5", "0", ",", " ", "i", "n", " ", "_", "c", "h", "e", "c", "k", "_", "s", "c", "h", "e", "m", "a">>

\* error texts handed to localize: the one-frame traceback, a two-frame
\* traceback whose second frame names _check_schema in a file outside the
\* codebase, and a text no extractor accepts
LocalizeTexts ==
    { JoinLines(<<TracebackLine, FrameLineCheckSchema, PyExcLine1>>),
      JoinLines(<<TracebackLine, FrameLineValidate, FrameLineElsewhere, PyExcLine1>>),
      <<"b", "o", "o", "m">> }

LocalizeBM25 == {0, 2}           \* bm25.get_scores values during localize
LocalizeDense == {2, 10}         \* cosine similarities during localize, in tenths
StoreScores == {6000, 9500}      \* OpenSearch _score values

\* opensearch_store.py:115-137: search_hybrid: hits in descending score
\* order, one per document at most (none when BM25 finds nothing)
StoreHits(ents) ==
    { h \in SeqsUpTo([entity : {ents[i].id : i \in 1..Len(ents)}, score : StoreScores], 2) :
        /\ \A i, j \in 1..Len(h) : i # j => h[i].entity # h[j].entity
        /\ \A i \in 1..(Len(h) - 1) : h[i].score >= h[i + 1].score }

(* ---------------- operations ---------------- *)

\* fault_localizer.py:10-21 / fault_localizer_prod.py:16-30: the object
\* after construction.  FaultLocalizerProd gets its path with index_codebase.
InitLocalize ==
    /\ variant \in {"text", "prod"}
    /\ codebase_path \in (IF variant = "text" THEN CodebasePaths ELSE {<<>>})
    /\ use_llm \in BOOLEAN
    /\ indexer_entities = <<>>
    /\ lpc = "new"
    /\ lcall = <<>>
    /\ lresult = <<>>
    /\ MergeIdle /\ GraphIdle /\ ExtractIdle /\ RetrieveIdle /\ CalibrateIdle /\ IndexIdle /\ JobIdle /\ RetryIdle /\ CacheIdle

\* fault_localizer.py:23-29: index().  HybridRetriever(entities, ...) raises
\* on an empty entity list (see RetrieverInit), before _indexed is set.
Index ==
    /\ variant = "text" /\ lpc = "new"
    /\ \E sources \in Codebases :
         /\ indexer_entities' = index_directory(codebase_path, sources)
         /\ lpc' = IF sources = <<>> THEN "indexFailed" ELSE "indexed"
    /\ UNCHANGED <<variant, codebase_path, use_llm, lcall, lresult,
                   mergeVars, graphVars, extractVars, retrieveVars, calibrateVars, indexVars, jobVars, retryVars, cacheVars>>

\* fault_localizer_prod.py:32-81: index_codebase(path)
IndexCodebase ==
    /\ variant = "prod" /\ lpc = "new"
    /\ \E path \in CodebasePaths, sources \in Codebases :
         /\ codebase_path' = path
         /\ indexer_entities' = index_directory(path, sources)
    /\ lpc' = "indexed"
    /\ UNCHANGED <<variant, use_llm, lcall, lresult,
                   mergeVars, graphVars, extractVars, retrieveVars, calibrateVars, indexVars, jobVars, retryVars, cacheVars>>

\* the record kept of a localize call
Call(top_k, reply, error, direct_candidates, expanded_candidates, search_results, all_candidates) ==
    [top_k |-> top_k, reply |-> reply, error |-> error,
     direct |-> direct_candidates, expanded |-> expanded_candidates,
     search_results |-> search_results, all_candidates |-> all_candidates]

\* fault_localizer.py:31-60: localize(error_text, top_k).  Each local
\* variable of the method is bound once, in the order of its assignments.
Localize ==
    /\ variant = "text" /\ lpc \in {"new", "indexFailed", "indexed"}
    /\ \E text \in LocalizeTexts, top_k \in TopKs,
          reply \in (IF use_llm THEN Replies ELSE {NoReply}) :
         IF lpc # "indexed"
         THEN /\ lcall' = Call(top_k, NoReply, Fallback(text), <<>>, <<>>, <<>>, <<>>)
              /\ lresult' = <<>>
              /\ lpc' = "raised"
         ELSE \E error \in {extract_error(text)} :
              \E direct_candidates \in {get_direct_candidates(indexer_entities, error)} :
              \E expanded_candidates \in expand_via_graph(indexer_entities, error.frames) :
              \E scores \in [1..Len(indexer_entities) -> LocalizeBM25],
                 dense \in [1..Len(indexer_entities) -> LocalizeDense] :
              \E order \in ArgSorts(scores) :
              \E search_results \in {search(indexer_entities, scores, dense, order,
                                            SearchTopK, DefaultPool)} :
              \E all_candidates \in {merge_candidates(direct_candidates, expanded_candidates,
                                                      search_results)} :
              \E out \in {Rank(use_llm, reply, all_candidates, top_k)} :
                 /\ lcall' = Call(top_k, reply, error, direct_candidates,
                                  expanded_candidates, search_results, all_candidates)
                 /\ lresult' = out.value
                 /\ lpc' = IF out.raised THEN "raised" ELSE "done"
    /\ UNCHANGED <<variant, codebase_path, use_llm, indexer_entities,
                   mergeVars, graphVars, extractVars, retrieveVars, calibrateVars, indexVars, jobVars, retryVars, cacheVars>>

\* fault_localizer_prod.py:83-102: localize(error_text, top_k)
LocalizeProd ==
    /\ variant = "prod" /\ lpc \in {"new", "indexed"}
    /\ \E text \in LocalizeTexts, top_k \in TopKs,
          reply \in (IF use_llm THEN Replies ELSE {NoReply}) :
         \E error \in {extract_error_prod(text)} :
         \E direct_candidates \in {get_direct_candidates_prod(indexer_entities, error.frames)} :
         \E search_results \in StoreHits(indexer_entities) :
         \E all_candidates \in {merge_candidates_prod(direct_candidates, search_results)} :
         \E out \in {Rank(use_llm, reply, all_candidates, top_k)} :
            /\ lcall' = Call(top_k, reply, error, direct_candidates, <<>>,
                             search_results, all_candidates)
            /\ lresult' = out.value
            /\ lpc' = IF out.raised THEN "raised" ELSE "done"
    /\ UNCHANGED <<variant, codebase_path, use_llm, indexer_entities,
                   mergeVars, graphVars, extractVars, retrieveVars, calibrateVars, indexVars, jobVars, retryVars, cacheVars>>

NextLocalize == Index \/ IndexCodebase \/ Localize \/ LocalizeProd

SpecLocalize == InitLocalize /\ [][NextLocalize]_vars

\* the entity record with id `id` in the index
EntityOf(id) ==
    indexer_entities[CHOOSE i \in 1..Len(indexer_entities) : indexer_entities[i].id = id]

\* the frame `File "app/validator.py", line 22, in _check_schema`
ClaimFrame == StackFrame(ValidatorPy, 22, CheckSchema, NoneStr, NoneStr)

\* C17: with the frame `File "app/validator.py", line 22, in _check_schema`
\* and the entity _check_schema (lines 15-25 of app/validator.py below the
\* indexed directory) in the index, localize(trace, top_k=5) without
\* re-ranker returns that entity first, with score 1.0.
C17_DirectMatchFirst ==
    (/\ lpc = "done" /\ variant = "text" /\ ~use_llm
     /\ lcall.top_k = 5
     /\ lcall.error.frames = <<ClaimFrame>>
     /\ \E i \in 1..Len(indexer_entities) : indexer_entities[i].id = SrcCheckSchema.id)
    => /\ lresult # <<>>
       /\ lresult[1].entity = SrcCheckSchema.id
       /\ lresult[1].score = DirectScore

\* does some frame of the last call lie in entity e (file and line range)
ContainsFrame(e) ==
    \E k \in 1..Len(lcall.error.frames) :
        LET f == lcall.error.frames[k] IN
        /\ e.file_path = f.file_path
        /\ e.start_line <= f.line_number /\ f.line_number <= e.end_line

\* does some frame of the last call name entity e as its method
NamedByFrame(e) ==
    \E k \in 1..Len(lcall.error.frames) :
        LET f == lcall.error.frames[k] IN
        e.name = f.method_name \/ EndsWith(full_name(e), f.method_name)

\* C18: in both variants a direct candidate has score 1.0 only if its file
\* is a frame's file and its line range holds that frame's line; an entity
\* matched only by a frame's method name enters the merge with 0.9.
C18_DirectScoreNeedsFileAndLine ==
    lpc = "done" =>
        \A k \in 1..Len(lcall.direct) :
            LET c == lcall.direct[k]
                e == EntityOf(c.entity)
            IN /\ c.score = DirectScore => ContainsFrame(e)
               /\ (NamedByFrame(e) /\ ~ContainsFrame(e)) => c.score = NameScore

\* C19: without re-ranker, localize(errorText, topK) for topK >= 0 returns
\* the first min(topK, #merged) merged candidates, in non-increasing score
\* order, each with its merged score and an empty reason, never more than
\* topK items.
C19_TruncatedToTopK ==
    (lpc = "done" /\ ~use_llm) =>
        LET all == lcall.all_candidates
            n == IF lcall.top_k < Len(all) THEN lcall.top_k ELSE Len(all)
        IN /\ Len(lresult) = n
           /\ \A k \in 1..n :
                lresult[k] = [entity |-> all[k].entity, score |-> all[k].score, reason |-> ""]
           /\ \A k \in 1..(n - 1) : lresult[k].score >= lresult[k + 1].score
           /\ Len(lresult) <= lcall.top_k

\* C19 witness: three candidates were merged (a direct one, an expanded one
\* and a retrieved one among them) and top_k = 1 kept the best one only.
C19_Witness ==
    /\ lpc = "done" /\ ~use_llm /\ variant = "text"
    /\ lcall.top_k = 1
    /\ Len(lcall.all_candidates) = 3
    /\ lcall.all_candidates[1].score > lcall.all_candidates[2].score
    /\ lcall.expanded # <<>>
    /\ Len(lresult) = 1
    /\ lresult[1].entity = lcall.all_candidates[1].entity

\* C20: when the configured re-ranker fails (the model call raises, or the
\* reply cannot be parsed), localize does not raise and returns the merged
\* candidates truncated to topK, in raw-score order.
C20_RerankerFailureFallsBack ==
    (/\ lpc \in {"done", "raised"} /\ use_llm
     /\ lcall.reply.kind \in {"raises", "unparsable"})
    => /\ lpc = "done"
       /\ LET all == lcall.all_candidates
              n == IF lcall.top_k < Len(all) THEN lcall.top_k ELSE Len(all)
          IN /\ Len(lresult) = n
             /\ \A k \in 1..n :
                  /\ lresult[k].entity = all[k].entity
                  /\ lresult[k].retrieval_score = all[k].score

\* C21: for an error text from which no stack frame is extracted, localize
\* (on an indexed codebase) completes without raising, the direct and the
\* graph-expanded candidate lists are empty, and every returned entity
\* comes from the hybrid retrieval result.
C21_EmptyFrameFallback ==
    (/\ lpc \in {"done", "raised"}
     /\ variant = "text" => indexer_entities # <<>>
     /\ lcall.error.frames = <<>>)
    => /\ lpc = "done"
       /\ lcall.direct = <<>>
       /\ lcall.expanded = <<>>
       /\ \A k \in 1..Len(lresult) :
            \E j \in 1..Len(lcall.search_results) :
                lresult[k].entity = lcall.search_results[j].entity

(***************************************************************************)
(* Parallel indexing: FaultLocalizerProd.index_codebase (a thread pool     *)
(* parses the batches, the calling thread writes them to the store) and    *)
(* CodeIndexer.index_directory (one loop over the files).                  *)
(*                                                                         *)
(* A file is given by what parsing it does; the k-th entity of the i-th    *)
(* file is <<i, k>>.                                                       *)
(***************************************************************************)
MaxFiles == 5                    \* most files below the codebase directory
WorkerCounts == {1, 2}           \* workers arguments of index_codebase

\* what parse_file does with a file: it returns the file's entities, or it
\* returns [] after a syntax error, or it raises (read_text on bytes that
\* are not UTF-8, a lexer error of javalang, ...)
FileShapes ==
    { [outcome |-> "entities", count |-> 1], [outcome |-> "entities", count |-> 2],
      [outcome |-> "syntax_error", count |-> 0], [outcome |-> "raises", count |-> 0] }

\* python_parser.py:8-33 / java_parser.py:8-25: parse_file on the i-th file
parse_file(file, i) ==
    IF file.outcome = "raises" THEN [raised |-> TRUE, entities |-> <<>>]
    ELSE IF file.outcome = "syntax_error" THEN [raised |-> FALSE, entities |-> <<>>]
    ELSE [raised |-> FALSE, entities |-> [k \in 1..file.count |-> <<i, k>>]]

\* fault_localizer_prod.py:47-64: process_batch on files lo..hi: a file
\* whose parse raises is skipped (except Exception: continue)
RECURSIVE process_batch(_, _, _)
process_batch(files, lo, hi) ==
    IF lo > hi THEN <<>>
    ELSE LET parsed == parse_file(files[lo], lo) IN
         (IF parsed.raised THEN <<>> ELSE parsed.entities)
         \o process_batch(files, lo + 1, hi)

\* code_indexer.py:18-26: the loops of index_directory from file i on;
\* parse_file is called outside any try block
RECURSIVE IndexDirectoryLoop(_, _, _)
IndexDirectoryLoop(files, i, found) ==
    IF i > Len(files) THEN [raised |-> FALSE, entities |-> found]
    ELSE LET parsed == parse_file(files[i], i) IN
         IF parsed.raised THEN [raised |-> TRUE, entities |-> <<>>]
         ELSE IndexDirectoryLoop(files, i + 1, found \o parsed.entities)

\* a plausible slip: the slice takes one file too many
BatchEndOverlap(i, size, n) == Min2(i + size + 1, n)

\* fault_localizer_prod.py:69: all_files[i:i + batch_size], as the 1-based
\* position of the slice's last file (i is the 0-based start)
BatchEnd(i, size, n) == Min2(i + size, n)

\* a plausible slip: completed batches are taken while a store write is
\* still in progress (the write handed to another thread)
ReadyDuringWrite(pc, fs) == {b \in 1..Len(fs) : fs[b].state = "done"}

\* fault_localizer_prod.py:72: what as_completed can yield to the calling
\* thread, which asks only at the top of its loop
Ready(pc, fs) ==
    IF pc = "collect" THEN {b \in 1..Len(fs) : fs[b].state = "done"} ELSE {}

InitIndexing ==
    /\ all_files \in SeqsUpTo(FileShapes, MaxFiles)
    /\ workers = 0 /\ batch_size = 0 /\ futures = <<>>
    /\ ipc = "new" /\ writing = {} /\ store_log = <<>> /\ total_indexed = 0
    /\ dir_entities = <<>>
    /\ MergeIdle /\ GraphIdle /\ ExtractIdle /\ RetrieveIdle /\ CalibrateIdle /\ LocalizeIdle /\ JobIdle /\ RetryIdle /\ CacheIdle

\* code_indexer.py:15-36: index_directory(path).  self.entities is filled
\* after the parse loops, so a raising parse_file leaves it empty.
IndexDirectory ==
    /\ ipc = "new"
    /\ \E out \in {IndexDirectoryLoop(all_files, 1, <<>>)} :
         /\ dir_entities' = out.entities
         /\ ipc' = IF out.raised THEN "dirRaised" ELSE "dirReturned"
    /\ UNCHANGED <<all_files, workers, batch_size, futures, writing, store_log, total_indexed,
                   mergeVars, graphVars, extractVars, retrieveVars, calibrateVars, localizeVars, jobVars, retryVars, cacheVars>>

\* fault_localizer_prod.py:32-45: index_codebase(path, workers) up to the
\* executor
StartIndexCodebase ==
    /\ ipc = "new"
    /\ \E w \in WorkerCounts :
         /\ workers' = w
         /\ batch_size' = Max2(1, Len(all_files) \div w)
    /\ ipc' = "submit"
    /\ UNCHANGED <<all_files, futures, writing, store_log, total_indexed, dir_entities,
                   mergeVars, graphVars, extractVars, retrieveVars, calibrateVars, localizeVars, jobVars, retryVars, cacheVars>>

\* fault_localizer_prod.py:68-70: one turn of the submit loop, i being the
\* end of the last batch submitted
SubmitBatch ==
    /\ ipc = "submit"
    /\ LET i == IF futures = <<>> THEN 0 ELSE futures[Len(futures)].hi IN
       IF i < Len(all_files)
       THEN /\ futures' = Append(futures,
                             [lo |-> i + 1, hi |-> BatchEnd(i, batch_size, Len(all_files)),
                              state |-> "pending", entities |-> <<>>])
            /\ ipc' = ipc
       ELSE /\ ipc' = "collect"
            /\ futures' = futures
    /\ UNCHANGED <<all_files, workers, batch_size, writing, store_log, total_indexed, dir_entities,
                   mergeVars, graphVars, extractVars, retrieveVars, calibrateVars, localizeVars, jobVars, retryVars, cacheVars>>

\* ThreadPoolExecutor(max_workers=workers): a free worker thread takes a
\* submitted batch
StartBatch ==
    /\ \E b \in 1..Len(futures) :
         /\ futures[b].state = "pending"
         /\ Cardinality({c \in 1..Len(futures) : futures[c].state = "running"}) < workers
         /\ futures' = [futures EXCEPT ![b].state = "running"]
    /\ UNCHANGED <<all_files, workers, batch_size, ipc, writing, store_log, total_indexed,
                   dir_entities,
                   mergeVars, graphVars, extractVars, retrieveVars, calibrateVars, localizeVars, jobVars, retryVars, cacheVars>>

\* fault_localizer_prod.py:47-64: a worker thread runs process_batch to its
\* return
FinishBatch ==
    /\ \E b \in 1..Len(futures) :
         /\ futures[b].state = "running"
         /\ futures' = [futures EXCEPT
                          ![b].state = "done",
                          ![b].entities = process_batch(all_files, futures[b].lo, futures[b].hi)]
    /\ UNCHANGED <<all_files, workers, batch_size, ipc, writing, store_log, total_indexed,
                   dir_entities,
                   mergeVars, graphVars, extractVars, retrieveVars, calibrateVars, localizeVars, jobVars, retryVars, cacheVars>>

\* fault_localizer_prod.py:72-75: the calling thread gets a completed
\* future's result and, if it holds entities, calls store.index
TakeCompleted ==
    /\ \E b \in Ready(ipc, futures) :
         /\ futures' = [futures EXCEPT ![b].state = "taken"]
         /\ IF futures[b].entities # <<>>
            THEN /\ writing' = writing \cup {b}
                 /\ ipc' = "write"
            ELSE /\ writing' = writing
                 /\ ipc' = ipc
    /\ UNCHANGED <<all_files, workers, batch_size, store_log, total_indexed, dir_entities,
                   mergeVars, graphVars, extractVars, retrieveVars, calibrateVars, localizeVars, jobVars, retryVars, cacheVars>>

\* fault_localizer_prod.py:75-79: store.index returns; the vocabulary is
\* learnt and the count grows
StoreIndexDone ==
    /\ ipc = "write"
    /\ \E b \in writing :
         /\ store_log' = Append(store_log, [batch |-> b, entities |-> futures[b].entities])
         /\ total_indexed' = total_indexed + Len(futures[b].entities)
         /\ writing' = writing \ {b}
    /\ ipc' = "collect"
    /\ UNCHANGED <<all_files, workers, batch_size, futures, dir_entities,
                   mergeVars, graphVars, extractVars, retrieveVars, calibrateVars, localizeVars, jobVars, retryVars, cacheVars>>

\* fault_localizer_prod.py:72,81: as_completed is exhausted, return
\* total_indexed
ReturnTotal ==
    /\ ipc = "collect"
    /\ \A b \in 1..Len(futures) : futures[b].state = "taken"
    /\ ipc' = "returned"
    /\ UNCHANGED <<all_files, workers, batch_size, futures, writing, store_log, total_indexed,
                   dir_entities,
                   mergeVars, graphVars, extractVars, retrieveVars, calibrateVars, localizeVars, jobVars, retryVars, cacheVars>>

NextIndexing ==
    \/ IndexDirectory \/ StartIndexCodebase \/ SubmitBatch \/ StartBatch
    \/ FinishBatch \/ TakeCompleted \/ StoreIndexDone \/ ReturnTotal

SpecIndexing == InitIndexing /\ [][NextIndexing]_vars

\* the entities parsing the i-th file yields (none when its parse fails)
ParsedEntities(i) ==
    IF all_files[i].outcome = "entities"
    THEN {<<i, k>> : k \in 1..all_files[i].count} ELSE {}

\* the entities an indexing call left in the store / in CodeIndexer.entities
IndexedEntities ==
    IF ipc \in {"dirReturned", "dirRaised"} THEN Range(dir_entities)
    ELSE UNION {Range(store_log[r].entities) : r \in 1..Len(store_log)}

\* C22: in index_codebase and in index_directory a source file whose
\* parsing fails contributes no entities, every other file is still parsed
\* and indexed, and the indexing call itself does not fail.
C22_ParseFailureSkipsFile ==
    ipc \in {"returned", "dirReturned", "dirRaised"} =>
        /\ ipc # "dirRaised"
        /\ IndexedEntities = UNION {ParsedEntities(i) : i \in 1..Len(all_files)}

\* C24: index_codebase(path, workers) with workers >= 1 cuts the file list
\* into contiguous batches of max(1, fileCount div workers) files (the
\* last batch holding what remains), every file in exactly one batch; the
\* entities of each batch are written to the store exactly once, and the
\* returned count is the number of entities of all batches.
C24_BatchesPartitionFiles ==
    ipc = "returned" =>
        LET n == Len(all_files)
            s == IF n \div workers > 1 THEN n \div workers ELSE 1
            of(b) == UNION {ParsedEntities(i) : i \in futures[b].lo..futures[b].hi}
            writes(b) == {r \in 1..Len(store_log) : store_log[r].batch = b}
        IN /\ batch_size = s
           /\ \A i \in 1..n :
                Cardinality({b \in 1..Len(futures) :
                               futures[b].lo <= i /\ i <= futures[b].hi}) = 1
           /\ \A b \in 1..Len(futures) :
                /\ futures[b].lo = (b - 1) * s + 1
                /\ futures[b].hi >= futures[b].lo
                /\ futures[b].hi - futures[b].lo + 1 <= s
                /\ b < Len(futures) => futures[b].hi - futures[b].lo + 1 = s
                /\ Cardinality(writes(b)) = (IF of(b) = {} THEN 0 ELSE 1)
                /\ \A r \in writes(b) :
                     /\ Range(store_log[r].entities) = of(b)
                     /\ Len(store_log[r].entities) = Cardinality(of(b))
           /\ \A r \in 1..Len(store_log) : store_log[r].batch \in 1..Len(futures)
           /\ total_indexed = Cardinality(UNION {of(b) : b \in 1..Len(futures)})

\* C24 witness: five files and two workers gave batches of 2, 2 and 1
\* files; two of them held entities and were written, in the order the
\* batches completed (the last batch first), the third held none.
C24_Witness ==
    /\ ipc = "returned" /\ workers = 2 /\ Len(all_files) = 5
    /\ Len(futures) = 3 /\ futures[3].lo = 5 /\ futures[3].hi = 5
    /\ Len(store_log) = 2 /\ store_log[1].batch = 3
    /\ futures[2].entities = <<>>
    /\ total_indexed = 4

\* C25: within one index_codebase call the worker threads only parse and
\* embed; store.index is called by one thread, one call at a time: no two
\* store writes are in progress together, in whatever order the batches
\* complete.
C25_StoreWritesOneAtATime ==
    /\ Cardinality(writing) <= 1
    /\ writing # {} => ipc = "write"
    /\ \A b \in 1..Len(futures) :
         futures[b].state \in {"pending", "running", "done"} =>
            /\ b \notin writing
            /\ \A r \in 1..Len(store_log) : store_log[r].batch # b

\* C25 witness: a store write is in progress while another batch with
\* entities has completed and a third is still being parsed.
C25_Witness ==
    /\ ipc = "write" /\ Cardinality(writing) = 1
    /\ \E b, c \in 1..Len(futures) :
         /\ futures[b].state = "done" /\ futures[b].entities # <<>>
         /\ futures[c].state = "running"

(***************************************************************************)
(* Background indexing jobs (indexer/background_indexer.py).  Each job     *)
(* has a thread running _run_job; its field writes are separate steps,     *)
(* which status readers interleave with.  Timestamps are "None" or "set".  *)
(***************************************************************************)
MaxJobs == 2                     \* most jobs started

\* what index_func does in the end: it returns a count or raises
IndexOutcomes ==
    { [raised |-> FALSE, count |-> 0, text |-> ""],
      [raised |-> FALSE, count |-> 3, text |-> ""],
      [raised |-> TRUE, count |-> 0, text |-> "boom"] }

\* background_indexer.py:18-27: a new IndexJob
IndexJob ==
    [status |-> "pending", started_at |-> "None", completed_at |-> "None",
     entities_indexed |-> 0, error |-> "None", progress |-> 0]

\* one attribute assignment `job.<field> = ...`
Write(field, num, str) == [field |-> field, num |-> num, str |-> str]

\* the job after an assignment
Assign(job, w) ==
    IF w.field = "entities_indexed" THEN [job EXCEPT !.entities_indexed = w.num]
    ELSE IF w.field = "progress" THEN [job EXCEPT !.progress = w.num]
    ELSE [job EXCEPT ![w.field] = w.str]

\* a plausible slip: RUNNING is never published
run_job_prologue_no_running == << Write("started_at", 0, "set") >>

\* background_indexer.py:55-56: the assignments of _run_job before the call
run_job_prologue == << Write("status", 0, "running"), Write("started_at", 0, "set") >>

\* background_indexer.py:60-66: the assignments of _run_job after the call:
\* the try body's rest or the except body, then the finally body
run_job_epilogue(outcome) ==
    IF outcome.raised
    THEN << Write("status", 0, "failed"), Write("error", 0, outcome.text),
            Write("completed_at", 0, "set") >>
    ELSE << Write("entities_indexed", outcome.count, ""), Write("status", 0, "completed"),
            Write("completed_at", 0, "set") >>

NoOutcome == [raised |-> FALSE, count |-> 0, text |-> "none"]

InitJobs ==
    /\ jobs = <<>> /\ threads = <<>> /\ observed = <<>>
    /\ MergeIdle /\ GraphIdle /\ ExtractIdle /\ RetrieveIdle /\ CalibrateIdle /\ LocalizeIdle /\ IndexIdle /\ RetryIdle /\ CacheIdle

\* background_indexer.py:37-51: start_job: the job is registered and its
\* thread started
StartJob ==
    /\ Len(jobs) < MaxJobs
    /\ jobs' = Append(jobs, IndexJob)
    /\ threads' = Append(threads, [pc |-> "prologue", todo |-> run_job_prologue,
                                    outcome |-> NoOutcome, wrote |-> {}])
    /\ UNCHANGED <<observed, mergeVars, graphVars, extractVars, retrieveVars, calibrateVars, localizeVars, indexVars, retryVars, cacheVars>>

\* background_indexer.py:55-56, 60-66: the job's thread makes its next
\* assignment; after the last one of the prologue it calls index_func,
\* after the last one of the epilogue it ends
RunJobWrite ==
    /\ \E j \in 1..Len(jobs) :
         /\ threads[j].pc \in {"prologue", "epilogue"}
         /\ threads[j].todo # <<>>
         /\ jobs' = [jobs EXCEPT ![j] = Assign(@, Head(threads[j].todo))]
         /\ threads' = [threads EXCEPT
                          ![j].todo = Tail(@),
                          ![j].wrote = @ \cup {Head(threads[j].todo).field},
                          ![j].pc = IF Tail(threads[j].todo) # <<>> THEN @
                                    ELSE IF @ = "prologue" THEN "call" ELSE "finished"]
    /\ UNCHANGED <<observed, mergeVars, graphVars, extractVars, retrieveVars, calibrateVars, localizeVars, indexVars, retryVars, cacheVars>>

\* background_indexer.py:59, 68-70: index_func reports progress through the
\* callback, which runs _update_progress in the job's thread
UpdateProgress ==
    /\ \E j \in 1..Len(jobs) :
         /\ threads[j].pc = "call"
         /\ jobs[j].progress = 0
         /\ jobs' = [jobs EXCEPT ![j] = Assign(@, Write("progress", 50, ""))]
         /\ threads' = [threads EXCEPT ![j].wrote = @ \cup {"progress"}]
    /\ UNCHANGED <<observed, mergeVars, graphVars, extractVars, retrieveVars, calibrateVars, localizeVars, indexVars, retryVars, cacheVars>>

\* background_indexer.py:58-62: index_func returns or raises
IndexFuncEnds ==
    /\ \E j \in 1..Len(jobs), outcome \in IndexOutcomes :
         /\ threads[j].pc = "call"
         /\ threads' = [threads EXCEPT ![j].pc = "epilogue",
                                       ![j].outcome = outcome,
                                       ![j].todo = run_job_epilogue(outcome)]
    /\ UNCHANGED <<jobs, observed, mergeVars, graphVars, extractVars, retrieveVars, calibrateVars, localizeVars, indexVars, retryVars, cacheVars>>

\* background_indexer.py:72-78 with api.py:147-159, 165-177: a reader gets
\* the job object from get_job / list_jobs and reads its status
ReadStatus ==
    /\ \E j \in 1..Len(jobs) :
         observed' = [job |-> j, status |-> jobs[j].status, read |-> FALSE,
                      entities_indexed |-> 0, error |-> "None", completed_at |-> "None",
                      progress |-> 0]
    /\ UNCHANGED <<jobs, threads, mergeVars, graphVars, extractVars, retrieveVars, calibrateVars, localizeVars, indexVars, retryVars, cacheVars>>

\* api.py:155-159: the reader reads the other fields of the object it holds
ReadFields ==
    /\ observed # <<>> /\ ~observed.read
    /\ observed' = [observed EXCEPT
                      !.read = TRUE,
                      !.entities_indexed = jobs[observed.job].entities_indexed,
                      !.error = jobs[observed.job].error,
                      !.completed_at = jobs[observed.job].completed_at,
                      !.progress = jobs[observed.job].progress]
    /\ UNCHANGED <<jobs, threads, mergeVars, graphVars, extractVars, retrieveVars, calibrateVars, localizeVars, indexVars, retryVars, cacheVars>>

NextJobs ==
    \/ StartJob \/ RunJobWrite \/ UpdateProgress \/ IndexFuncEnds
    \/ ReadStatus \/ ReadFields

SpecJobs == InitJobs /\ [][NextJobs]_vars

\* C23: the status of every job moves only along PENDING -> RUNNING ->
\* COMPLETED or FAILED and never changes once COMPLETED or FAILED; when
\* index_func returns n the job ends COMPLETED with entities_indexed = n
\* and no error, when it raises the job ends FAILED with error set to the
\* exception text; only the job's own thread writes the job's fields.
C23_JobStatusLifecycle ==
    [][/\ \A j \in 1..Len(jobs) :
            /\ jobs'[j].status # jobs[j].status =>
                  <<jobs[j].status, jobs'[j].status>> \in
                      { <<"pending", "running">>, <<"running", "completed">>,
                        <<"running", "failed">> }
            /\ jobs'[j] # jobs[j] => threads'[j] # threads[j]
            /\ threads'[j].pc = "finished" =>
                  IF threads'[j].outcome.raised
                  THEN /\ jobs'[j].status = "failed"
                       /\ jobs'[j].error = threads'[j].outcome.text
                  ELSE /\ jobs'[j].status = "completed"
                       /\ jobs'[j].entities_indexed = threads'[j].outcome.count
                       /\ jobs'[j].error = "None"
       /\ \A j \in (Len(jobs) + 1)..Len(jobs') : jobs'[j].status = "pending"
      ]_vars

\* C23 witness: one job ended COMPLETED with 3 entities and no error,
\* another ended FAILED with the exception text.
C23_Witness ==
    /\ Len(jobs) = 2
    /\ threads[1].pc = "finished" /\ threads[2].pc = "finished"
    /\ jobs[1].status = "completed" /\ jobs[1].entities_indexed = 3 /\ jobs[1].error = "None"
    /\ jobs[2].status = "failed" /\ jobs[2].error = "boom"

\* C28: whenever a status reader running beside the job thread
\* observes a job whose status is COMPLETED or FAILED, the job's
\* completed_at is already set, and for COMPLETED its entities_indexed
\* already holds the final count.
C28_TerminalStatusHasCompletedAt ==
    (observed # <<>> /\ observed.read /\ observed.status \in {"completed", "failed"})
    => /\ observed.completed_at = "set"
       /\ observed.status = "completed" =>
             observed.entities_indexed = threads[observed.job].outcome.count

\* C26: for any text returned by the model, rank_and_explain returns a list
\* of at most topK items, each of whose entities is one of the candidates
\* shown to the model in the prompt (the first 15 of the merged list), with
\* no candidate returned twice.
C26_RankedSubsetOfPrompt ==
    (/\ lpc \in {"done", "raised"} /\ use_llm
     /\ lcall.reply.kind \in {"unparsable", "not_objects", "rankings"})
    => /\ lpc = "done"
       /\ Len(lresult) <= lcall.top_k
       /\ \A k \in 1..Len(lresult) :
            \E j \in 1..Len(SliceFirst(lcall.all_candidates, PromptCap)) :
                lresult[k].entity = lcall.all_candidates[j].entity
       /\ \A k, m \in 1..Len(lresult) : k # m => lresult[k].entity # lresult[m].entity

(***************************************************************************)
(* Retry decorator (utils/retry.py).  Delays are whole seconds; the        *)
(* exception raised by the k-th invocation is named after k.               *)
(***************************************************************************)
MaxAttempts == 3                 \* largest max_attempts drawn

Delays == {1, 2}                 \* delay arguments
Backoffs == {1, 2, 3}            \* backoff arguments

\* what an invocation of func does: it returns, raises an exception of one
\* of the types in `exceptions`, or raises another exception
Behaviours == {"returns", "raises_listed", "raises_other"}

ExceptionNames == <<"E1", "E2", "E3", "E4", "E5">>
ValueNames == <<"v1", "v2", "v3", "v4", "v5">>

\* a plausible slip: the wrapper sleeps after the last attempt too
SleepsAfterEvery(i, n) == i < n

\* retry.py:35: if attempt < max_attempts - 1 (attempt counts from 0)
SleepsAfter(i, n) == i < n - 1

InitRetry ==
    /\ max_attempts \in 1..MaxAttempts
    /\ delay \in Delays
    /\ backoff \in Backoffs
    /\ attempt = 0
    /\ current_delay = delay
    /\ last_exception = "None"
    /\ invocations = <<>> /\ sleeps = <<>>
    /\ wpc = "loop" /\ wresult = "None"
    /\ MergeIdle /\ GraphIdle /\ ExtractIdle /\ RetrieveIdle /\ CalibrateIdle /\ LocalizeIdle /\ IndexIdle /\ JobIdle /\ CacheIdle

\* retry.py:29-37: one turn of the loop: func is invoked; its value is
\* returned, or its exception is caught (and the wrapper sleeps if another
\* attempt follows), or its exception leaves the wrapper
Attempt ==
    /\ wpc = "loop" /\ attempt < max_attempts
    /\ \E does \in Behaviours :
         /\ invocations' = Append(invocations, does)
         /\ IF does = "returns"
            THEN /\ wpc' = "returned"
                 /\ wresult' = ValueNames[attempt + 1]
                 /\ UNCHANGED <<attempt, current_delay, last_exception, sleeps>>
            ELSE IF does = "raises_other"
            THEN /\ wpc' = "raised"
                 /\ wresult' = ExceptionNames[attempt + 1]
                 /\ UNCHANGED <<attempt, current_delay, last_exception, sleeps>>
            ELSE /\ last_exception' = ExceptionNames[attempt + 1]
                 /\ IF SleepsAfter(attempt, max_attempts)
                    THEN /\ sleeps' = Append(sleeps, current_delay)
                         /\ current_delay' = current_delay * backoff
                    ELSE UNCHANGED <<sleeps, current_delay>>
                 /\ attempt' = attempt + 1
                 /\ UNCHANGED <<wpc, wresult>>
    /\ UNCHANGED <<max_attempts, delay, backoff, mergeVars, graphVars, extractVars, retrieveVars, calibrateVars, localizeVars, indexVars, jobVars, cacheVars>>

\* retry.py:39: the loop is exhausted: raise last_exception
RaiseLast ==
    /\ wpc = "loop" /\ attempt >= max_attempts
    /\ wpc' = "raised"
    /\ wresult' = last_exception
    /\ UNCHANGED <<max_attempts, delay, backoff, attempt, current_delay, last_exception, invocations, sleeps, mergeVars, graphVars, extractVars, retrieveVars, calibrateVars, localizeVars, indexVars, jobVars, cacheVars>>

NextRetry == Attempt \/ RaiseLast

SpecRetry == InitRetry /\ [][NextRetry]_vars

\* delay * backoff^k
RECURSIVE Scaled(_, _, _)
Scaled(d, b, k) == IF k = 0 THEN d ELSE Scaled(d * b, b, k - 1)

\* C27: a function wrapped by retry(max_attempts = n >= 1) is invoked at
\* most n times; the wrapper returns the first successful result without
\* further calls, re-raises the last caught exception after n failed
\* attempts, sleeps only between consecutive attempts (never after the
\* last), the delay multiplied by backoff each time, and an exception not
\* in `exceptions` propagates at once without another attempt.
C27_RetryAtMostN ==
    LET made == Len(invocations)
        failed == {k \in 1..made : invocations[k] = "raises_listed"}
    IN /\ made <= max_attempts
       /\ \A k \in 1..(made - 1) : invocations[k] = "raises_listed"
       /\ wpc = "loop" => failed = 1..made
       /\ wpc = "returned" =>
            /\ invocations[made] = "returns"
            /\ wresult = ValueNames[made]
       /\ wpc = "raised" =>
            \/ /\ invocations[made] = "raises_other"
               /\ wresult = ExceptionNames[made]
            \/ /\ made = max_attempts /\ failed = 1..made
               /\ wresult = ExceptionNames[max_attempts]
       /\ Len(sleeps) = Cardinality(failed \ {max_attempts})
       /\ wpc # "loop" => Len(sleeps) = made - 1
       /\ \A k \in 1..Len(sleeps) : sleeps[k] = Scaled(delay, backoff, k - 1)

\* C27 witness: with max_attempts = 3, delay 2 and backoff 3 all three
\* attempts failed: the wrapper slept 2 and 6 seconds, not after the third
\* attempt, and raised the third exception.
C27_Witness ==
    /\ wpc = "raised" /\ max_attempts = 3 /\ delay = 2 /\ backoff = 3
    /\ invocations = <<"raises_listed", "raises_listed", "raises_listed">>
    /\ sleeps = <<2, 6>>
    /\ wresult = "E3"

(***************************************************************************)
(* API layer: /localize answers from the query cache or computes and       *)
(* caches; the job started by /index re-indexes in its own thread and then *)
(* invalidates the cache (api.py, cache/redis_cache.py).  One query is     *)
(* followed; a cache entry is named by the index version its results were  *)
(* computed against.                                                       *)
(***************************************************************************)
MaxRequests == 2                 \* most /localize requests

\* does localize find fault locations for the query (only a non-empty
\* result is cached, api.py:216, and only a non-empty entry is a hit,
\* api.py:190)
Findings == {TRUE, FALSE}

\* a /localize request that has just arrived
NewRequest(after) ==
    [pc |-> "get", version |-> -1, found |-> FALSE, cached |-> FALSE, after_reindex |-> after]

InitCache ==
    /\ index_version = 0
    /\ cache_enabled \in BOOLEAN
    /\ cache_entry = <<>>
    /\ reindex = "new" /\ found_keys = {} /\ requests = <<>>
    /\ MergeIdle /\ GraphIdle /\ ExtractIdle /\ RetrieveIdle /\ CalibrateIdle /\ LocalizeIdle /\ IndexIdle /\ JobIdle /\ RetryIdle

\* api.py:182-186: a /localize request arrives
Arrive ==
    /\ Len(requests) < MaxRequests
    /\ requests' = Append(requests, NewRequest(reindex = "finished"))
    /\ UNCHANGED <<index_version, cache_enabled, cache_entry, reindex, found_keys,
                   mergeVars, graphVars, extractVars, retrieveVars, calibrateVars, localizeVars, indexVars, jobVars, retryVars>>

\* api.py:188-195 with redis_cache.py:27-39: cache.get; a hit is returned
\* with cached=True
CacheGet ==
    /\ \E r \in 1..Len(requests) :
         /\ requests[r].pc = "get"
         /\ requests' = [requests EXCEPT ![r] =
                IF cache_enabled /\ cache_entry # <<>>
                THEN [@ EXCEPT !.pc = "done", !.cached = TRUE, !.found = TRUE,
                               !.version = cache_entry[1]]
                ELSE [@ EXCEPT !.pc = "localize"]]
    /\ UNCHANGED <<index_version, cache_enabled, cache_entry, reindex, found_keys,
                   mergeVars, graphVars, extractVars, retrieveVars, calibrateVars, localizeVars, indexVars, jobVars, retryVars>>

\* api.py:197-214: localizer.localize reads the index as it is now
ComputeLocations ==
    /\ \E r \in 1..Len(requests), f \in Findings :
         /\ requests[r].pc = "localize"
         /\ requests' = [requests EXCEPT ![r] =
                [@ EXCEPT !.pc = "set", !.version = index_version, !.found = f]]
    /\ UNCHANGED <<index_version, cache_enabled, cache_entry, reindex, found_keys,
                   mergeVars, graphVars, extractVars, retrieveVars, calibrateVars, localizeVars, indexVars, jobVars, retryVars>>

\* api.py:216-220 with redis_cache.py:41-64: cache.set of a non-empty
\* result, then the response
CacheSet ==
    /\ \E r \in 1..Len(requests) :
         /\ requests[r].pc = "set"
         /\ cache_entry' = IF cache_enabled /\ requests[r].found
                           THEN <<requests[r].version>> ELSE cache_entry
         /\ requests' = [requests EXCEPT ![r].pc = "done"]
    /\ UNCHANGED <<index_version, cache_enabled, reindex, found_keys,
                   mergeVars, graphVars, extractVars, retrieveVars, calibrateVars, localizeVars, indexVars, jobVars, retryVars>>

\* redis_cache.py:63: setex(key, ttl, ...): the entry expires
Expire ==
    /\ cache_entry # <<>>
    /\ cache_entry' = <<>>
    /\ UNCHANGED <<index_version, cache_enabled, reindex, found_keys, requests,
                   mergeVars, graphVars, extractVars, retrieveVars, calibrateVars, localizeVars, indexVars, jobVars, retryVars>>

\* api.py:123-131: do_index: localizer.index_codebase writes the new index
Reindex ==
    /\ reindex = "new"
    /\ index_version' = index_version + 1
    /\ reindex' = "indexed"
    /\ UNCHANGED <<cache_enabled, cache_entry, found_keys, requests,
                   mergeVars, graphVars, extractVars, retrieveVars, calibrateVars, localizeVars, indexVars, jobVars, retryVars>>

\* api.py:134-135 with redis_cache.py:66-73: cache.invalidate asks Redis for
\* the keys
InvalidateKeys ==
    /\ reindex = "indexed"
    /\ found_keys' = IF cache_enabled /\ cache_entry # <<>> THEN {"key"} ELSE {}
    /\ reindex' = "keys"
    /\ UNCHANGED <<index_version, cache_enabled, cache_entry, requests,
                   mergeVars, graphVars, extractVars, retrieveVars, calibrateVars, localizeVars, indexVars, jobVars, retryVars>>

\* redis_cache.py:74-78 with api.py:137: the keys found are deleted and
\* do_index returns: the job has finished
InvalidateDelete ==
    /\ reindex = "keys"
    /\ cache_entry' = IF found_keys # {} THEN <<>> ELSE cache_entry
    /\ found_keys' = {}
    /\ reindex' = "finished"
    /\ UNCHANGED <<index_version, cache_enabled, requests,
                   mergeVars, graphVars, extractVars, retrieveVars, calibrateVars, localizeVars, indexVars, jobVars, retryVars>>

NextCache ==
    \/ Arrive \/ CacheGet \/ ComputeLocations \/ CacheSet \/ Expire
    \/ Reindex \/ InvalidateKeys \/ InvalidateDelete

SpecCache == InitCache /\ [][NextCache]_vars

\* C29: once an indexing job has finished and invalidated the query cache,
\* no later /localize request is answered from a cache entry that was
\* computed against the pre-reindex index, even when a /localize request
\* was in flight while the reindex ran.
C29_NoStaleCacheAfterReindex ==
    \A r \in 1..Len(requests) :
        (requests[r].after_reindex /\ requests[r].pc = "done" /\ requests[r].cached)
        => requests[r].version = index_version

\* the full names that call, within 2 backward hops of the call graph of
\* the index, a node named by (or ending with) the method of some frame of
\* the last localize call
FrameCallers ==
    LET graph == BuildEdges(indexer_entities)
        names == {full_name(indexer_entities[i]) : i \in 1..Len(indexer_entities)}
        starts == {n \in names :
                     \E k \in 1..Len(lcall.error.frames) :
                        \/ n = lcall.error.frames[k].method_name
                        \/ EndsWith(n, lcall.error.frames[k].method_name)}
        hop1 == {n \in names : \E t \in starts : <<n, t>> \in graph}
        hop2 == {n \in names : \E t \in hop1 : <<n, t>> \in graph}
    IN hop1 \cup hop2

\* C30: every candidate produced by _expand_via_graph (score 0.7) is an
\* entity whose full name is a caller, within 2 backward hops in the call
\* graph, of the method of some frame of the error; no entity that is not
\* such a caller is added by graph expansion.
C30_ExpandedAreCallers ==
    (lpc = "done" /\ variant = "text") =>
        \A k \in 1..Len(lcall.expanded) :
            /\ lcall.expanded[k].score = ExpandedScore
            /\ full_name(EntityOf(lcall.expanded[k].entity)) \in FrameCallers

====
